---- MODULE Spec2Model ----
(***************************************************************************)
(* State-machine model of nstutorial/image-compressor:                     *)
(*   - the crop dialog (src/src/components/ImageCropper.tsx): crop         *)
(*     rectangle, pointer interaction, rotation, crop extraction; and the  *)
(*     second ImageCropper of the repository (src/unnamed/part_000), which *)
(*     differs from it in drawCanvas and handleCrop only;                  *)
(*   - the target-size compression search (src/unnamed/part_001,           *)
(*     compressImage / tryCompress / handleCompress).                      *)
(*                                                                         *)
(* Lengths of the crop dialog are fixed-point numbers in units of 1/PX of  *)
(* a canvas pixel; qualities of the search are fixed-point numbers in      *)
(* units of 1/QUnit.                                                       *)
(***************************************************************************)
EXTENDS Integers, Naturals, Sequences, FiniteSets, TLC

VARIABLES
    \* ---- crop dialog (ImageCropper.tsx, and its copy in part_000) ----
    variant,        \* the mounted ImageCropper is the copy of part_000
    dialogOpen,     \* the dialog is mounted and open
    imageLoaded,    \* useState imageLoaded
    img,            \* imageRef.current: [width, height] in pixels, 0x0 = null
    canvas,         \* canvasRef.current: [width, height] in pixels
    cropArea,       \* useState cropArea: [x, y, width, height] in 1/PX pixels
    isDragging,     \* useState isDragging
    isResizing,     \* useState isResizing
    resizeHandle,   \* useState resizeHandle ("null" = null)
    dragStart,      \* useState dragStart: [x, y] in 1/PX pixels
    isTouch,        \* useState isTouch
    rotation,       \* useState rotation, degrees
    cropJob,        \* the extraction handleCrop last issued, and its toBlob state
    toasts,         \* number of destructive ("Error") toasts shown by the dialog
    delivered,      \* number of onCropComplete invocations
    lastOp,         \* the handler that ran last and the mode it found
    steps,          \* number of handlers run so far
    \* ---- compressor (part_001: ImageCompressor) ----
    imageFiles,     \* useState imageFiles: the list of image entries
    selectedImageIndex, \* useState selectedImageIndex, 1-based, 0 = null
    cropCallback,   \* the pending onCropComplete: the index and image its
                    \* closure holds, NoCallback when none is pending
    uploaded,       \* number of images handleFileUpload has added so far
    cropped,        \* the images a completed crop was applied to
    targetSize,     \* settings.targetSize in KB, 0 = undefined
    quality,        \* settings.quality in 1/QUnit
    isCompressing,  \* useState isCompressing
    batch,          \* handleCompress: [i, done, files, out]: loop index,
                    \* result count, the imageFiles of the closure and
                    \* compressedFiles
    search,         \* compressImage: the locals of the running promise
    inFlight,       \* canvas.toBlob calls whose callback has not run yet
    \* ---- background remover (part_000: BackgroundRemover) ----
    bgOpen,         \* the dialog is open (isOpen of the parent)
    isProcessing,   \* useState isProcessing
    progress,       \* useState progress
    backgroundColor,\* useState backgroundColor
    previewImage,   \* useState previewImage: the blob the object URL names
    processedBlob,  \* useState processedBlob
    bgRuns,         \* runs of loadImage + removeBackground under way
    bgDone,         \* the runs that ended, and the toast each one showed
    bgApplied,      \* the blobs handed to onBackgroundRemoved, in order
    bgOps,          \* number of runs started so far
    resizeCall      \* resizeImageIfNeeded: the image and the canvas of a call
                    \* and its return value

cropVars == <<variant, dialogOpen, imageLoaded, img, canvas, cropArea,
              isDragging, isResizing, resizeHandle, dragStart, isTouch,
              rotation, cropJob, toasts, delivered, lastOp, steps>>

listVars == <<imageFiles, selectedImageIndex, cropCallback, uploaded, cropped>>

compVars == <<listVars, targetSize, quality, isCompressing, batch, search,
              inFlight>>

bgVars == <<bgOpen, isProcessing, progress, backgroundColor, previewImage,
            processedBlob, bgRuns, bgDone, bgApplied, bgOps, resizeCall>>

vars == <<cropVars, compVars, bgVars>>

----------------------------------------------------------------------------
\* Bounds of the model.

\* Number of handler invocations explored in one dialog session.
MaxEvents == 4

\* Number of handler invocations explored in one session of the copy in
\* part_000, whose pointer handlers are those of ImageCropper.tsx.
MaxVariantEvents == 3

\* Number of images a user uploads.
MaxFiles == 2

\* Number of crops applied to one image of the list.
MaxCrops == 1

\* Number of background removals and re-colourings started in one session.
MaxBgRuns == 3

----------------------------------------------------------------------------
\* Program constants.

\* Fixed-point denominator of canvas lengths: img.onload halves twice
\* (canvas.width * 0.5, then (canvas.width - initialSize) / 2).
PX == 2 * 2

\* The literal 50 of the resize switch: minimum crop width and height.
MIN_SIZE == 50

maxWidth == 600
maxHeight == 400

\* Default size of an HTML canvas element before img.onload sets it.
DefaultCanvas == [width |-> 300, height |-> 150]

Max(a, b) == IF a >= b THEN a ELSE b
Min(a, b) == IF a <= b THEN a ELSE b
Abs(a) == IF a >= 0 THEN a ELSE -a

\* Math.round of the rational n/d (d > 0): floor(n/d + 1/2).
Round(n, d) == (2 * n + d) \div (2 * d)

----------------------------------------------------------------------------
\* Inputs.

\* Natural sizes of the images a user opens in the dialog: one larger than
\* the canvas limits, one smaller, and one so flat that the canvas img.onload
\* sizes for it has height 0.
ImageSizes == { [width |-> 1200, height |-> 800],
                [width |-> 80,   height |-> 60],
                [width |-> 1300, height |-> 1] }

\* The values the rotate buttons give to rotation.
QuarterTurns == {0, 90, 180, 270}

\* Pointer positions, canvas coordinates in 1/PX pixels: the corners, the
\* edge thirds/quarters and the centre of the current canvas.
PointerXs == { 0, (canvas.width * PX) \div 3, (canvas.width * PX) \div 2,
               (2 * canvas.width * PX) \div 3, canvas.width * PX }
PointerYs == { 0, (canvas.height * PX) \div 4, (canvas.height * PX) \div 2,
               (3 * canvas.height * PX) \div 4, canvas.height * PX }
Pointers == { [x |-> px, y |-> py] : px \in PointerXs, py \in PointerYs }

----------------------------------------------------------------------------
\* Pure helpers of the crop dialog.

getHandleSize(touch) == IF touch THEN 24 * PX ELSE 12 * PX

\* Canvas size chosen by img.onload; canvas.width/height are integer
\* attributes, so the product is truncated.
CanvasFor(image) ==
    IF image.width <= maxWidth /\ image.height <= maxHeight
    THEN [width |-> image.width, height |-> image.height]
    ELSE IF maxWidth * image.height <= maxHeight * image.width
         THEN [width |-> maxWidth,
               height |-> (image.height * maxWidth) \div image.width]
         ELSE [width |-> (image.width * maxHeight) \div image.height,
               height |-> maxHeight]

\* The centred default rectangle of img.onload and resetCrop.
InitialArea(cv) ==
    LET initialSize == Min(200 * PX, Min((cv.width * PX) \div 2,
                                         (cv.height * PX) \div 2))
    IN [x |-> (cv.width * PX - initialSize) \div 2,
        y |-> (cv.height * PX - initialSize) \div 2,
        width |-> initialSize,
        height |-> initialSize]

\* Mutant of getResizeHandle: the hit-boxes are the squares drawCanvas draws,
\* of side handleSize, centred on the corners and on the edge midpoints.
getResizeHandle_DrawnSquares(x, y, area, handleSize) ==
    LET x2 == 2 * x
        y2 == 2 * y
        w2 == 2 * area.x
        e2 == 2 * (area.x + area.width)
        n2 == 2 * area.y
        s2 == 2 * (area.y + area.height)
        near(p2, a2) == p2 >= a2 - handleSize /\ p2 <= a2 + handleSize
    IN
    IF near(x2, w2) /\ near(y2, n2) THEN "nw"
    ELSE IF near(x2, e2) /\ near(y2, n2) THEN "ne"
    ELSE IF near(x2, w2) /\ near(y2, s2) THEN "sw"
    ELSE IF near(x2, e2) /\ near(y2, s2) THEN "se"
    ELSE IF near(x2, w2 + area.width) /\ near(y2, n2) THEN "n"
    ELSE IF near(x2, w2 + area.width) /\ near(y2, s2) THEN "s"
    ELSE IF near(x2, e2) /\ near(y2, n2 + area.height) THEN "e"
    ELSE IF near(x2, w2) /\ near(y2, n2 + area.height) THEN "w"
    ELSE "null"

\* Mutant of getResizeHandle: the edge handles are tested before the corner
\* handles.
getResizeHandle_EdgesFirst(x, y, area, handleSize) ==
    LET cx == area.x
        cy == area.y
        width == area.width
        height == area.height
    IN
    IF x >= cx + handleSize /\ x <= cx + width - handleSize
       /\ y >= cy - handleSize /\ y <= cy + handleSize THEN "n"
    ELSE IF x >= cx + handleSize /\ x <= cx + width - handleSize
       /\ y >= cy + height - handleSize /\ y <= cy + height + handleSize THEN "s"
    ELSE IF x >= cx + width - handleSize /\ x <= cx + width + handleSize
       /\ y >= cy + handleSize /\ y <= cy + height - handleSize THEN "e"
    ELSE IF x >= cx - handleSize /\ x <= cx + handleSize
       /\ y >= cy + handleSize /\ y <= cy + height - handleSize THEN "w"
    ELSE IF x >= cx - handleSize /\ x <= cx + handleSize
       /\ y >= cy - handleSize /\ y <= cy + handleSize THEN "nw"
    ELSE IF x >= cx + width - handleSize /\ x <= cx + width + handleSize
       /\ y >= cy - handleSize /\ y <= cy + handleSize THEN "ne"
    ELSE IF x >= cx - handleSize /\ x <= cx + handleSize
       /\ y >= cy + height - handleSize /\ y <= cy + height + handleSize THEN "sw"
    ELSE IF x >= cx + width - handleSize /\ x <= cx + width + handleSize
       /\ y >= cy + height - handleSize /\ y <= cy + height + handleSize THEN "se"
    ELSE "null"

getResizeHandle(x, y, area, handleSize) ==
    LET cx == area.x
        cy == area.y
        width == area.width
        height == area.height
    IN
    IF x >= cx - handleSize /\ x <= cx + handleSize
       /\ y >= cy - handleSize /\ y <= cy + handleSize THEN "nw"
    ELSE IF x >= cx + width - handleSize /\ x <= cx + width + handleSize
       /\ y >= cy - handleSize /\ y <= cy + handleSize THEN "ne"
    ELSE IF x >= cx - handleSize /\ x <= cx + handleSize
       /\ y >= cy + height - handleSize /\ y <= cy + height + handleSize THEN "sw"
    ELSE IF x >= cx + width - handleSize /\ x <= cx + width + handleSize
       /\ y >= cy + height - handleSize /\ y <= cy + height + handleSize THEN "se"
    ELSE IF x >= cx + handleSize /\ x <= cx + width - handleSize
       /\ y >= cy - handleSize /\ y <= cy + handleSize THEN "n"
    ELSE IF x >= cx + handleSize /\ x <= cx + width - handleSize
       /\ y >= cy + height - handleSize /\ y <= cy + height + handleSize THEN "s"
    ELSE IF x >= cx + width - handleSize /\ x <= cx + width + handleSize
       /\ y >= cy + handleSize /\ y <= cy + height - handleSize THEN "e"
    ELSE IF x >= cx - handleSize /\ x <= cx + handleSize
       /\ y >= cy + handleSize /\ y <= cy + height - handleSize THEN "w"
    ELSE "null"

\* The drag-membership test of handleMouseDown.
InsideArea(pos, area) ==
    /\ pos.x >= area.x /\ pos.x <= area.x + area.width
    /\ pos.y >= area.y /\ pos.y <= area.y + area.height

\* The resize switch of handleMouseMove (setCropArea updater).
ResizeArea(prev, handle, deltaX, deltaY, cv) ==
    LET m == MIN_SIZE * PX
        cw == cv.width * PX
        ch == cv.height * PX
        wX == Max(0, Min(prev.x + deltaX, prev.x + prev.width - m))
        nY == Max(0, Min(prev.y + deltaY, prev.y + prev.height - m))
        wW == Max(m, prev.width - deltaX)
        nH == Max(m, prev.height - deltaY)
        eW == Max(m, Min(prev.width + deltaX, cw - prev.x))
        sH == Max(m, Min(prev.height + deltaY, ch - prev.y))
    IN
    CASE handle = "nw" -> [x |-> wX, y |-> nY, width |-> wW, height |-> nH]
      [] handle = "ne" -> [prev EXCEPT !.y = nY, !.width = eW, !.height = nH]
      [] handle = "sw" -> [prev EXCEPT !.x = wX, !.width = wW, !.height = sH]
      [] handle = "se" -> [prev EXCEPT !.width = eW, !.height = sH]
      [] handle = "n"  -> [prev EXCEPT !.y = nY, !.height = nH]
      [] handle = "s"  -> [prev EXCEPT !.height = sH]
      [] handle = "e"  -> [prev EXCEPT !.width = eW]
      [] handle = "w"  -> [prev EXCEPT !.x = wX, !.width = wW]
      [] OTHER -> prev

\* Mutant of DragArea: the far-edge clamp (canvas size minus rectangle size)
\* is dropped.
DragArea_NoFarClamp(prev, deltaX, deltaY, cv) ==
    [prev EXCEPT !.x = Max(0, prev.x + deltaX),
                 !.y = Max(0, prev.y + deltaY)]

\* The drag branch of handleMouseMove (setCropArea updater).
DragArea(prev, deltaX, deltaY, cv) ==
    [prev EXCEPT
        !.x = Max(0, Min(prev.x + deltaX, cv.width * PX - prev.width)),
        !.y = Max(0, Min(prev.y + deltaY, cv.height * PX - prev.height))]

----------------------------------------------------------------------------
\* Crop extraction geometry (handleCrop) and the displayed image (drawCanvas).

\* An extraction: tempCanvas of outW x outH, its context translated by
\* (tx2/2, ty2/2) and rotated by rot, then drawImage of the source rectangle
\* (sx, sy, sw, sh) 1:1 onto the rectangle of the same size at (dx2/2, dy2/2).
NoJob == [state |-> "none", rot |-> 0, sx |-> 0, sy |-> 0, sw |-> 0, sh |-> 0,
          outW |-> 0, outH |-> 0, tx2 |-> 0, ty2 |-> 0, dx2 |-> 0, dy2 |-> 0]

\* Math.round(v * (srcLen / cvLen)) for a length v in 1/PX pixels. With a
\* canvas side of 0 the factor is Infinity and the result Infinity or NaN: a
\* canvas size set to it becomes 0 and drawImage draws nothing.
ScaleRound(v, srcLen, cvLen) ==
    IF cvLen = 0 THEN 0 ELSE Round(v * srcLen, PX * cvLen)

\* Mutant of CropGeometry: the display rectangle is used as it is, without
\* the scale factors img.width / canvas.width and img.height / canvas.height.
CropGeometry_NoScale(area, rot, image, cv) ==
    LET cropX == Round(area.x, PX)
        cropY == Round(area.y, PX)
        cropWidth == Round(area.width, PX)
        cropHeight == Round(area.height, PX)
        sx == IF rot = 90 THEN cropY
              ELSE IF rot = 270 THEN image.height - cropY - cropHeight
              ELSE cropX
        sy == IF rot = 90 THEN image.width - cropX - cropWidth
              ELSE IF rot = 270 THEN cropX
              ELSE cropY
    IN [state |-> "pending", rot |-> rot, sx |-> sx, sy |-> sy,
        sw |-> cropWidth, sh |-> cropHeight,
        outW |-> cropWidth, outH |-> cropHeight,
        tx2 |-> cropWidth, ty2 |-> cropHeight,
        dx2 |-> -cropWidth, dy2 |-> -cropHeight]

\* Mutant of CropGeometry: the tempCanvas is given the size of the display
\* rectangle instead of the size of the scaled crop.
CropGeometry_DisplayCanvas(area, rot, image, cv) ==
    LET cropX == ScaleRound(area.x, image.width, cv.width)
        cropY == ScaleRound(area.y, image.height, cv.height)
        cropWidth == ScaleRound(area.width, image.width, cv.width)
        cropHeight == ScaleRound(area.height, image.height, cv.height)
        sx == IF rot = 90 THEN cropY
              ELSE IF rot = 270 THEN image.height - cropY - cropHeight
              ELSE cropX
        sy == IF rot = 90 THEN image.width - cropX - cropWidth
              ELSE IF rot = 270 THEN cropX
              ELSE cropY
    IN [state |-> "pending", rot |-> rot, sx |-> sx, sy |-> sy,
        sw |-> cropWidth, sh |-> cropHeight,
        outW |-> Round(area.width, PX), outH |-> Round(area.height, PX),
        tx2 |-> cropWidth, ty2 |-> cropHeight,
        dx2 |-> -cropWidth, dy2 |-> -cropHeight]

\* Mutant of CropGeometry: at 90 and 270 the far offset is the rounded
\* difference round(img.width - (x + width) * scaleX), as in the copy of
\* part_000, not the difference of the rounded values.
CropGeometry_RoundedDifference(area, rot, image, cv) ==
    LET cropX == ScaleRound(area.x, image.width, cv.width)
        cropY == ScaleRound(area.y, image.height, cv.height)
        cropWidth == ScaleRound(area.width, image.width, cv.width)
        cropHeight == ScaleRound(area.height, image.height, cv.height)
        farX == IF cv.width = 0 THEN image.width
                ELSE Round(image.width * PX * cv.width
                           - (area.x + area.width) * image.width, PX * cv.width)
        farY == IF cv.height = 0 THEN image.height
                ELSE Round(image.height * PX * cv.height
                           - (area.y + area.height) * image.height, PX * cv.height)
        sx == IF rot = 90 THEN cropY
              ELSE IF rot = 270 THEN farY
              ELSE cropX
        sy == IF rot = 90 THEN farX
              ELSE IF rot = 270 THEN cropX
              ELSE cropY
    IN [state |-> "pending", rot |-> rot, sx |-> sx, sy |-> sy,
        sw |-> cropWidth, sh |-> cropHeight,
        outW |-> cropWidth, outH |-> cropHeight,
        tx2 |-> cropWidth, ty2 |-> cropHeight,
        dx2 |-> -cropWidth, dy2 |-> -cropHeight]

\* The drawImage call of handleCrop: source rectangle (sx, sy, sw, sh) of the
\* image, drawn 1:1 into a destination rectangle of the same size centred on
\* a tempCanvas of outW x outH that is rotated by rot about its centre.
\* All values are whole source pixels.
CropGeometry(area, rot, image, cv) ==
    LET cropX == ScaleRound(area.x, image.width, cv.width)
        cropY == ScaleRound(area.y, image.height, cv.height)
        cropWidth == ScaleRound(area.width, image.width, cv.width)
        cropHeight == ScaleRound(area.height, image.height, cv.height)
        sx == IF rot = 90 THEN cropY
              ELSE IF rot = 270 THEN image.height - cropY - cropHeight
              ELSE cropX
        sy == IF rot = 90 THEN image.width - cropX - cropWidth
              ELSE IF rot = 270 THEN cropX
              ELSE cropY
    IN [state |-> "pending", rot |-> rot, sx |-> sx, sy |-> sy,
        sw |-> cropWidth, sh |-> cropHeight,
        outW |-> cropWidth, outH |-> cropHeight,
        tx2 |-> cropWidth, ty2 |-> cropHeight,
        dx2 |-> -cropWidth, dy2 |-> -cropHeight]

\* handleCrop of the copy in part_000: the switch on rotation that computes
\* sx, sy, sw, sh, the tempCanvas of sw x sh, and the switch that draws; for
\* 90 and 270 drawImage is given the source size (sh, sw).
VariantGeometry(area, rot, image, cv) ==
    LET dX == PX * cv.width
        dY == PX * cv.height
        X(v) == Round(v * image.width, dX)
        Y(v) == Round(v * image.height, dY)
        farX == Round(image.width * dX
                      - (area.x + area.width) * image.width, dX)
        farY == Round(image.height * dY
                      - (area.y + area.height) * image.height, dY)
        sx == CASE rot = 90 -> Y(area.y)
                [] rot = 180 -> farX
                [] rot = 270 -> farY
                [] OTHER -> X(area.x)
        sy == CASE rot = 90 -> farX
                [] rot = 180 -> farY
                [] rot = 270 -> X(area.x)
                [] OTHER -> Y(area.y)
        sw == IF rot \in {90, 270} THEN Y(area.height) ELSE X(area.width)
        sh == IF rot \in {90, 270} THEN X(area.width) ELSE Y(area.height)
    IN [state |-> "pending", rot |-> rot, sx |-> sx, sy |-> sy,
        sw |-> IF rot \in {90, 270} THEN sh ELSE sw,
        sh |-> IF rot \in {90, 270} THEN sw ELSE sh,
        outW |-> sw, outH |-> sh,
        tx2 |-> IF rot \in {90, 180} THEN 2 * sw ELSE 0,
        ty2 |-> IF rot \in {180, 270} THEN 2 * sh ELSE 0,
        dx2 |-> 0, dy2 |-> 0]

\* drawCanvas: the source-image point shown at canvas point (px, py), as the
\* pair of rationals <<un/ud, vn/vd>> in source pixels (px, py in 1/PX pixels).
\* The image is drawn into (-drawWidth/2, -drawHeight/2, drawWidth, drawHeight)
\* of a frame rotated by rot about the canvas centre, drawWidth and drawHeight
\* being the canvas size, swapped for 90 and 270.
DisplaySource(px, py, rot, image, cv) ==
    LET cw == cv.width * PX
        ch == cv.height * PX
    IN CASE rot = 0   -> [un |-> px * image.width, ud |-> cw,
                          vn |-> py * image.height, vd |-> ch]
         [] rot = 90  -> [un |-> py * image.width, ud |-> ch,
                          vn |-> (cw - px) * image.height, vd |-> cw]
         [] rot = 180 -> [un |-> (cw - px) * image.width, ud |-> cw,
                          vn |-> (ch - py) * image.height, vd |-> ch]
         [] rot = 270 -> [un |-> (ch - py) * image.width, ud |-> ch,
                          vn |-> px * image.height, vd |-> cw]

\* drawCanvas of the copy in part_000: the image is drawn at its natural size
\* on a canvas of the image's size (sides swapped at 90 and 270), the context
\* translated to the corner the rotation moves the image origin to.
VariantDisplaySource(px, py, rot, image, cv) ==
    LET cw == (IF rot % 180 # 0 THEN image.height ELSE image.width) * PX
        ch == (IF rot % 180 # 0 THEN image.width ELSE image.height) * PX
    IN CASE rot = 0   -> [un |-> px, ud |-> PX, vn |-> py, vd |-> PX]
         [] rot = 90  -> [un |-> py, ud |-> PX, vn |-> cw - px, vd |-> PX]
         [] rot = 180 -> [un |-> cw - px, ud |-> PX, vn |-> ch - py, vd |-> PX]
         [] rot = 270 -> [un |-> ch - py, ud |-> PX, vn |-> px, vd |-> PX]

\* handleCrop's drawImage: the position (a2, b2), in half source pixels and in
\* the rotated frame centred on the tempCanvas centre, of the tempCanvas point
\* (ox, oy).
FramePoint(job, ox, oy) ==
    CASE job.rot = 0   -> [a2 |-> 2 * ox - job.tx2, b2 |-> 2 * oy - job.ty2]
      [] job.rot = 90  -> [a2 |-> 2 * oy - job.ty2, b2 |-> job.tx2 - 2 * ox]
      [] job.rot = 180 -> [a2 |-> job.tx2 - 2 * ox, b2 |-> job.ty2 - 2 * oy]
      [] job.rot = 270 -> [a2 |-> job.ty2 - 2 * oy, b2 |-> 2 * ox - job.tx2]

\* The tempCanvas point (ox, oy) lies in the drawn destination rectangle
\* (dx2/2, dy2/2, sw, sh) of the rotated frame.
Covered(job, ox, oy) ==
    LET f == FramePoint(job, ox, oy)
    IN /\ job.dx2 <= f.a2 /\ f.a2 <= job.dx2 + 2 * job.sw
       /\ job.dy2 <= f.b2 /\ f.b2 <= job.dy2 + 2 * job.sh

\* The source-image point (in half source pixels) that the drawImage mapping
\* of handleCrop puts at the tempCanvas point (ox, oy).
OutputSource(job, ox, oy) ==
    LET f == FramePoint(job, ox, oy)
    IN [u2 |-> 2 * job.sx + f.a2 - job.dx2,
        v2 |-> 2 * job.sy + f.b2 - job.dy2]

----------------------------------------------------------------------------
\* The crop dialog: initial state and handlers.

NullImage == [width |-> 0, height |-> 0]

InitCrop ==
    /\ variant \in BOOLEAN
    /\ dialogOpen = TRUE
    /\ imageLoaded = FALSE
    /\ img = NullImage
    /\ canvas = DefaultCanvas
    /\ cropArea = [x |-> 50 * PX, y |-> 50 * PX,
                   width |-> 200 * PX, height |-> 200 * PX]
    /\ isDragging = FALSE
    /\ isResizing = FALSE
    /\ resizeHandle = "null"
    /\ dragStart = [x |-> 0, y |-> 0]
    /\ isTouch = FALSE
    /\ rotation = 0
    /\ cropJob = NoJob
    /\ toasts = 0
    /\ delivered = 0
    /\ lastOp = [op |-> "init", mode |-> "idle"]
    /\ steps = 0

\* A user-driven handler can run: the dialog is open and the session bound
\* is not exhausted.
CanAct ==
    dialogOpen /\ steps < (IF variant THEN MaxVariantEvents ELSE MaxEvents)

\* The mode the handlers act on: handleMouseMove tests the resize branch
\* first, then the drag branch.
Mode == IF isResizing /\ resizeHandle # "null" THEN "resizing"
        ELSE IF isDragging THEN "dragging"
        ELSE "idle"

Ran(op) == /\ lastOp' = [op |-> op, mode |-> Mode]
           /\ steps' = steps + 1
           /\ UNCHANGED variant

\* The size drawCanvas leaves the canvas with once the image is loaded. The
\* copy in part_000 resizes the canvas to the image, sides swapped at 90 and
\* 270; ImageCropper.tsx keeps the size img.onload chose.
CanvasAfterDraw(cv, image, rot) ==
    IF variant
    THEN IF rot % 180 # 0
         THEN [width |-> image.height, height |-> image.width]
         ELSE [width |-> image.width, height |-> image.height]
    ELSE cv

\* img.onload of the load effect.
ImgOnload(image) ==
    /\ CanAct
    /\ ~imageLoaded
    /\ canvas' = CanvasAfterDraw(CanvasFor(image), image, rotation)
    /\ img' = image
    /\ cropArea' = InitialArea(CanvasFor(image))
    /\ imageLoaded' = TRUE
    /\ Ran("imgOnload")
    /\ UNCHANGED <<compVars, bgVars>>
    /\ UNCHANGED <<dialogOpen, isDragging, isResizing, resizeHandle, dragStart,
                   isTouch, rotation, cropJob, toasts, delivered>>

\* Mutant of MouseDownEffect: the inside-rectangle test runs before the
\* handle hit-test.
MouseDownEffect_DragFirst(pos, handleSize) ==
    LET handle == getResizeHandle(pos.x, pos.y, cropArea, handleSize)
    IN /\ IF InsideArea(pos, cropArea)
          THEN /\ isDragging' = TRUE
               /\ UNCHANGED <<isResizing, resizeHandle>>
          ELSE IF handle # "null"
          THEN /\ isResizing' = TRUE
               /\ resizeHandle' = handle
               /\ UNCHANGED isDragging
          ELSE UNCHANGED <<isDragging, isResizing, resizeHandle>>
       /\ dragStart' = pos

\* handleMouseDown, run with the handle size of the current render.
MouseDownEffect(pos, handleSize) ==
    LET handle == getResizeHandle(pos.x, pos.y, cropArea, handleSize)
    IN /\ IF handle # "null"
          THEN /\ isResizing' = TRUE
               /\ resizeHandle' = handle
               /\ UNCHANGED isDragging
          ELSE IF InsideArea(pos, cropArea)
          THEN /\ isDragging' = TRUE
               /\ UNCHANGED <<isResizing, resizeHandle>>
          ELSE UNCHANGED <<isDragging, isResizing, resizeHandle>>
       /\ dragStart' = pos

handleMouseDown(pos) ==
    /\ CanAct
    /\ MouseDownEffect(pos, getHandleSize(isTouch))
    /\ Ran("handleMouseDown")
    /\ UNCHANGED <<compVars, bgVars>>
    /\ UNCHANGED <<dialogOpen, imageLoaded, img, canvas, cropArea, isTouch,
                   rotation, cropJob, toasts, delivered>>

\* handleTouchStart: setIsTouch(true), then handleMouseDown of this render,
\* whose getHandleSize still reads the isTouch of this render.
handleTouchStart(pos) ==
    /\ CanAct
    /\ isTouch' = TRUE
    /\ MouseDownEffect(pos, getHandleSize(isTouch))
    /\ Ran("handleTouchStart")
    /\ UNCHANGED <<compVars, bgVars>>
    /\ UNCHANGED <<dialogOpen, imageLoaded, img, canvas, cropArea,
                   rotation, cropJob, toasts, delivered>>

\* Mutant of MoveEffect: the drag branch is not guarded by isDragging.
MoveEffect_DragWhenIdle(pos) ==
    LET deltaX == pos.x - dragStart.x
        deltaY == pos.y - dragStart.y
    IN /\ cropArea' =
            IF isResizing /\ resizeHandle # "null"
            THEN ResizeArea(cropArea, resizeHandle, deltaX, deltaY, canvas)
            ELSE DragArea(cropArea, deltaX, deltaY, canvas)
       /\ dragStart' = pos

\* handleMouseMove; handleTouchMove delegates to it.
MoveEffect(pos) ==
    LET deltaX == pos.x - dragStart.x
        deltaY == pos.y - dragStart.y
    IN /\ cropArea' =
            IF isResizing /\ resizeHandle # "null"
            THEN ResizeArea(cropArea, resizeHandle, deltaX, deltaY, canvas)
            ELSE IF isDragging
            THEN DragArea(cropArea, deltaX, deltaY, canvas)
            ELSE cropArea
       /\ dragStart' = pos

handleMouseMove(pos) ==
    /\ CanAct
    /\ MoveEffect(pos)
    /\ Ran("handleMouseMove")
    /\ UNCHANGED <<compVars, bgVars>>
    /\ UNCHANGED <<dialogOpen, imageLoaded, img, canvas, isDragging, isResizing,
                   resizeHandle, isTouch, rotation, cropJob, toasts, delivered>>

\* A touchmove is dispatched only for a touch that started on the canvas.
handleTouchMove(pos) ==
    /\ CanAct
    /\ isTouch
    /\ MoveEffect(pos)
    /\ Ran("handleMouseMove")
    /\ UNCHANGED <<compVars, bgVars>>
    /\ UNCHANGED <<dialogOpen, imageLoaded, img, canvas, isDragging, isResizing,
                   resizeHandle, isTouch, rotation, cropJob, toasts, delivered>>

\* Mutant of UpEffect: setIsResizing(false) is missing.
UpEffect_KeepResizing ==
    /\ isDragging' = FALSE
    /\ UNCHANGED isResizing
    /\ resizeHandle' = "null"

\* Mutant of UpEffect: setResizeHandle(null) is missing.
UpEffect_KeepHandle ==
    /\ isDragging' = FALSE
    /\ isResizing' = FALSE
    /\ UNCHANGED resizeHandle

\* handleMouseUp: wired to onMouseUp and onMouseLeave; handleTouchEnd (wired to
\* onTouchEnd and onTouchCancel) delegates to it.
UpEffect ==
    /\ isDragging' = FALSE
    /\ isResizing' = FALSE
    /\ resizeHandle' = "null"

handleMouseUp ==
    /\ CanAct
    /\ UpEffect
    /\ Ran("handleMouseUp")
    /\ UNCHANGED <<compVars, bgVars>>
    /\ UNCHANGED <<dialogOpen, imageLoaded, img, canvas, cropArea, dragStart,
                   isTouch, rotation, cropJob, toasts, delivered>>

\* A touchend or touchcancel is dispatched only for a touch that started on
\* the canvas.
handleTouchEnd ==
    /\ CanAct
    /\ isTouch
    /\ UpEffect
    /\ Ran("handleMouseUp")
    /\ UNCHANGED <<compVars, bgVars>>
    /\ UNCHANGED <<dialogOpen, imageLoaded, img, canvas, cropArea, dragStart,
                   isTouch, rotation, cropJob, toasts, delivered>>

\* Mutant of LeftTurn: (r - 90) % 360 with the remainder of JavaScript, which
\* keeps the sign of r - 90.
LeftTurn_SignedRemainder(r) == r - 90

\* The updaters of the Rotate Left and Rotate Right buttons.
LeftTurn(r) == (r - 90 + 360) % 360
RightTurn(r) == (r + 90) % 360

\* The Rotate Left and Rotate Right buttons.
RotateLeft ==
    /\ CanAct
    /\ rotation' = LeftTurn(rotation)
    /\ canvas' = IF imageLoaded
                 THEN CanvasAfterDraw(canvas, img, rotation')
                 ELSE canvas
    /\ Ran("rotateLeft")
    /\ UNCHANGED <<compVars, bgVars>>
    /\ UNCHANGED <<dialogOpen, imageLoaded, img, cropArea, isDragging,
                   isResizing, resizeHandle, dragStart, isTouch, cropJob,
                   toasts, delivered>>

RotateRight ==
    /\ CanAct
    /\ rotation' = RightTurn(rotation)
    /\ canvas' = IF imageLoaded
                 THEN CanvasAfterDraw(canvas, img, rotation')
                 ELSE canvas
    /\ Ran("rotateRight")
    /\ UNCHANGED <<compVars, bgVars>>
    /\ UNCHANGED <<dialogOpen, imageLoaded, img, cropArea, isDragging,
                   isResizing, resizeHandle, dragStart, isTouch, cropJob,
                   toasts, delivered>>

resetCrop ==
    /\ CanAct
    /\ cropArea' = InitialArea(canvas)
    /\ Ran("resetCrop")
    /\ UNCHANGED <<compVars, bgVars>>
    /\ UNCHANGED <<dialogOpen, imageLoaded, img, canvas, isDragging, isResizing,
                   resizeHandle, dragStart, isTouch, rotation, cropJob,
                   toasts, delivered>>

\* handleCrop; ctxOk is whether tempCanvas.getContext('2d') returns a context.
handleCrop(ctxOk) ==
    /\ CanAct
    /\ IF img = NullImage
       THEN /\ toasts' = toasts + 1
            /\ UNCHANGED cropJob
       ELSE IF ~ctxOk
       THEN /\ toasts' = toasts + 1
            /\ UNCHANGED cropJob
       ELSE /\ cropJob' = IF variant
                          THEN VariantGeometry(cropArea, rotation, img, canvas)
                          ELSE CropGeometry(cropArea, rotation, img, canvas)
            /\ UNCHANGED toasts
    /\ Ran(IF ctxOk THEN "handleCrop" ELSE "handleCropNoContext")
    /\ UNCHANGED <<compVars, bgVars>>
    /\ UNCHANGED <<dialogOpen, imageLoaded, img, canvas, cropArea, isDragging,
                   isResizing, resizeHandle, dragStart, isTouch, rotation,
                   delivered>>

\* The toBlob callback of handleCrop; a canvas without pixels encodes to null.
ToBlobCallback(blobOk) ==
    /\ cropJob.state = "pending"
    /\ blobOk => (cropJob.outW > 0 /\ cropJob.outH > 0)
    /\ IF blobOk
       THEN /\ delivered' = delivered + 1
            /\ dialogOpen' = FALSE
            /\ cropJob' = [cropJob EXCEPT !.state = "done"]
       ELSE /\ cropJob' = [cropJob EXCEPT !.state = "failed"]
            /\ UNCHANGED <<delivered, dialogOpen>>
    /\ lastOp' = [op |-> "toBlobCallback", mode |-> Mode]
    /\ UNCHANGED <<compVars, bgVars>>
    /\ UNCHANGED <<variant, imageLoaded, img, canvas, cropArea, isDragging,
                   isResizing, resizeHandle, dragStart, isTouch, rotation,
                   toasts, steps>>

\* The Cancel button (onClose).
Cancel ==
    /\ CanAct
    /\ dialogOpen' = FALSE
    /\ Ran("cancel")
    /\ UNCHANGED <<compVars, bgVars>>
    /\ UNCHANGED <<imageLoaded, img, canvas, cropArea, isDragging, isResizing,
                   resizeHandle, dragStart, isTouch, rotation, cropJob,
                   toasts, delivered>>

\* Mutant of handleCropImage: the ImageCropper stays mounted while closed, so
\* opening it again only shows it.
handleCropImage_StillMounted ==
    /\ ~dialogOpen
    /\ steps < (IF variant THEN MaxVariantEvents ELSE MaxEvents)
    /\ dialogOpen' = TRUE
    /\ Ran("handleCropImage")
    /\ UNCHANGED <<compVars, bgVars>>
    /\ UNCHANGED <<imageLoaded, img, canvas, cropArea, isDragging, isResizing,
                   resizeHandle, dragStart, isTouch, rotation, cropJob,
                   toasts, delivered>>

\* handleCropImage of the parent (the crop button of an image of the list)
\* after the dialog was closed: onClose set selectedImageIndex to null, which
\* unmounted the ImageCropper; a new one is mounted with the initial values
\* of its useState and useRef hooks. A toBlob callback of the closed dialog
\* that has not run yet stays outstanding.
handleCropImage ==
    /\ ~dialogOpen
    /\ steps < (IF variant THEN MaxVariantEvents ELSE MaxEvents)
    /\ dialogOpen' = TRUE
    /\ imageLoaded' = FALSE
    /\ img' = NullImage
    /\ canvas' = DefaultCanvas
    /\ cropArea' = [x |-> 50 * PX, y |-> 50 * PX,
                    width |-> 200 * PX, height |-> 200 * PX]
    /\ isDragging' = FALSE
    /\ isResizing' = FALSE
    /\ resizeHandle' = "null"
    /\ dragStart' = [x |-> 0, y |-> 0]
    /\ isTouch' = FALSE
    /\ rotation' = 0
    /\ Ran("handleCropImage")
    /\ UNCHANGED <<compVars, bgVars>>
    /\ UNCHANGED <<cropJob, toasts, delivered>>

----------------------------------------------------------------------------
\* The compression search (part_001: compressImage, tryCompress) and the
\* batch loop (handleCompress).

maxAttempts == 10

\* Fixed-point denominator of qualities: tenths (the slider's step), halved
\* once per retry of the search.
QUnit == 10 * (2 ^ maxAttempts)

\* Positions of the Initial Quality slider (min 0.1, max 1, step 0.1) that
\* are explored: both ends, the middle and the default 0.8.
SliderQualities == { (k * QUnit) \div 10 : k \in {1, 5, 8, 10} }

\* Target sizes a user types, in KB.
TargetSizes == {100}

\* Sizes, in KB, of the blobs the encoder returns.
BlobSizes == {50, 90, 250}

NoBlob == [size |-> 0, quality |-> 0]

NoSearch == [phase |-> "idle", minQuality |-> 0, maxQuality |-> 0,
             bestBlob |-> NoBlob, attempts |-> 0, q |-> 0, calls |-> 0,
             lastSize |-> 0, result |-> NoBlob]

\* Math.abs(sizeKB - targetKB) <= targetKB * 0.1; false when targetKB is
\* undefined (NaN).
WithinTolerance(sizeKB, targetKB) ==
    targetKB # 0 /\ 10 * Abs(sizeKB - targetKB) <= targetKB

\* sizeKB > targetKB; false when targetKB is undefined (NaN).
OverTarget(sizeKB, targetKB) == targetKB # 0 /\ sizeKB > targetKB

\* Mutant of SearchEnds: any blob that is not over the target ends the search.
SearchEnds_AnyUnder(sizeKB, targetKB, attempts) ==
    (targetKB # 0 /\ sizeKB <= targetKB) \/ attempts >= maxAttempts

\* The termination test of the toBlob callback.
SearchEnds(sizeKB, targetKB, attempts) ==
    WithinTolerance(sizeKB, targetKB) \/ attempts >= maxAttempts

\* Mutant of ResolvedBlob: the remembered best-so-far is resolved when there
\* is one.
ResolvedBlob_Best(bestBlob, blob) ==
    IF bestBlob # NoBlob THEN bestBlob ELSE blob

\* resolve(blob): the promise resolves with the blob of the current callback;
\* bestBlob is written by the search and never read.
ResolvedBlob(bestBlob, blob) == blob

\* Mutant of NarrowSearch: each branch moves the other bound.
NarrowSearch_OtherBound(s, blob, targetKB) ==
    IF OverTarget(blob.size, targetKB)
    THEN [s EXCEPT !.attempts = s.attempts + 1,
                   !.lastSize = blob.size,
                   !.minQuality = s.q,
                   !.q = (s.minQuality + s.q) \div 2,
                   !.calls = s.calls + 1]
    ELSE [s EXCEPT !.attempts = s.attempts + 1,
                   !.lastSize = blob.size,
                   !.maxQuality = s.q,
                   !.bestBlob = blob,
                   !.q = (s.q + s.maxQuality) \div 2,
                   !.calls = s.calls + 1]

\* Mutant of NarrowSearch: the two branches retry toward the wrong bound.
NarrowSearch_WrongSide(s, blob, targetKB) ==
    IF OverTarget(blob.size, targetKB)
    THEN [s EXCEPT !.attempts = s.attempts + 1,
                   !.lastSize = blob.size,
                   !.maxQuality = s.q,
                   !.q = (s.q + s.maxQuality) \div 2,
                   !.calls = s.calls + 1]
    ELSE [s EXCEPT !.attempts = s.attempts + 1,
                   !.lastSize = blob.size,
                   !.minQuality = s.q,
                   !.bestBlob = blob,
                   !.q = (s.minQuality + s.q) \div 2,
                   !.calls = s.calls + 1]

\* The bound update of the toBlob callback and the quality of the next
\* tryCompress call.
NarrowSearch(s, blob, targetKB) ==
    IF OverTarget(blob.size, targetKB)
    THEN [s EXCEPT !.attempts = s.attempts + 1,
                   !.lastSize = blob.size,
                   !.maxQuality = s.q,
                   !.q = (s.minQuality + s.q) \div 2,
                   !.calls = s.calls + 1]
    ELSE [s EXCEPT !.attempts = s.attempts + 1,
                   !.lastSize = blob.size,
                   !.minQuality = s.q,
                   !.bestBlob = blob,
                   !.q = (s.q + s.maxQuality) \div 2,
                   !.calls = s.calls + 1]

\* imageFiles.length
nFiles == Len(imageFiles)

\* A File or Blob of the list, named by the uploaded image it stems from and
\* the number of crops applied to it; a preview URL, a size and a compressed
\* blob are named by the file they were made from.  NoFile is undefined.
NoFile == [src |-> 0, crops |-> 0]

NoCallback == [index |-> 0, file |-> NoFile]

\* The entry handleFileUpload builds for the uploaded image id.
NewImageFile(id) ==
    [file |-> [src |-> id, crops |-> 0],
     preview |-> [src |-> id, crops |-> 0],
     originalSize |-> [src |-> id, crops |-> 0],
     compressedSize |-> NoFile,
     compressedBlob |-> NoFile]

NoBatch == [i |-> 0, done |-> 0, files |-> <<>>, out |-> <<>>]

InitComp ==
    /\ imageFiles = <<>>
    /\ selectedImageIndex = 0
    /\ cropCallback = NoCallback
    /\ uploaded = 0
    /\ cropped = {}
    /\ targetSize = 0
    /\ quality = (8 * QUnit) \div 10
    /\ isCompressing = FALSE
    /\ batch = NoBatch
    /\ search = NoSearch
    /\ inFlight = 0

\* handleFileUpload with n image files: setImageFiles(prev => [...prev,
\* ...newFiles]).  The drop zone and the file input are not disabled while a
\* batch runs; the crop dialog is modal.
handleFileUpload(n) ==
    /\ selectedImageIndex = 0
    /\ uploaded + n <= MaxFiles
    /\ imageFiles' = imageFiles \o [k \in 1..n |-> NewImageFile(uploaded + k)]
    /\ uploaded' = uploaded + n
    /\ UNCHANGED <<selectedImageIndex, cropCallback, cropped>>
    /\ UNCHANGED <<targetSize, quality, isCompressing, batch, search, inFlight>>
    /\ UNCHANGED <<cropVars, bgVars>>

\* onChange of the Target Size input.
SetTargetSize(t) ==
    /\ ~isCompressing
    /\ selectedImageIndex = 0
    /\ targetSize' = t
    /\ UNCHANGED <<listVars, quality, isCompressing, batch, search, inFlight>>
    /\ UNCHANGED <<cropVars, bgVars>>

\* onChange of the Initial Quality slider.
SetQuality(q) ==
    /\ ~isCompressing
    /\ selectedImageIndex = 0
    /\ quality' = q
    /\ UNCHANGED <<listVars, targetSize, isCompressing, batch, search, inFlight>>
    /\ UNCHANGED <<cropVars, bgVars>>

\* compressImage up to img.src = preview: the search waits for img.onload
\* (the record keeps the locals of the previous search until onload sets them).
StartImage == [NoSearch EXCEPT !.phase = "loading"]

\* Mutant of handleCompress: the Compress button is not disabled while a
\* batch runs.
handleCompress_Reentrant ==
    /\ selectedImageIndex = 0
    /\ nFiles > 0
    /\ isCompressing' = TRUE
    /\ batch' = [NoBatch EXCEPT !.files = imageFiles]
    /\ search' = StartImage
    /\ UNCHANGED <<listVars, targetSize, quality, inFlight>>
    /\ UNCHANGED <<cropVars, bgVars>>

\* handleCompress, from the click to the first await; the Compress button is
\* disabled while isCompressing or when there is no file.
handleCompress ==
    /\ ~isCompressing
    /\ selectedImageIndex = 0
    /\ nFiles > 0
    /\ isCompressing' = TRUE
    /\ batch' = [NoBatch EXCEPT !.files = imageFiles]
    /\ search' = StartImage
    /\ UNCHANGED <<listVars, targetSize, quality, inFlight>>
    /\ UNCHANGED <<cropVars, bgVars>>

\* img.onload of compressImage: the search locals are set and
\* tryCompress(settings.quality) issues the first toBlob.
CompressOnload ==
    /\ search.phase = "loading"
    /\ search' = [phase |-> "encoding",
                  minQuality |-> QUnit \div 10,
                  maxQuality |-> QUnit,
                  bestBlob |-> NoBlob,
                  attempts |-> 0,
                  q |-> quality,
                  calls |-> 1,
                  lastSize |-> 0,
                  result |-> NoBlob]
    /\ inFlight' = inFlight + 1
    /\ UNCHANGED <<listVars, targetSize, quality, isCompressing, batch>>
    /\ UNCHANGED <<cropVars, bgVars>>

\* The image fails to load: compressImage sets no onerror, nothing runs.
CompressLoadFails ==
    /\ search.phase = "loading"
    /\ search' = [search EXCEPT !.phase = "stuck"]
    /\ UNCHANGED <<listVars, targetSize, quality, isCompressing, batch, inFlight>>
    /\ UNCHANGED <<cropVars, bgVars>>

\* compressedFiles.push({...imageFile, compressedBlob, compressedSize}) for
\* the entry imageFile of the closure's list: compressImage encoded
\* imageFile.preview.
Compressed(imageFile) ==
    [imageFile EXCEPT !.compressedBlob = imageFile.preview,
                      !.compressedSize = imageFile.preview]

\* handleCompress after `await compressImage(imageFile)` resolves:
\* the file is pushed, and the loop over the imageFiles of the closure starts
\* the next image or ends the batch with setImageFiles(compressedFiles); the
\* locals of the handler end with it.
AfterResolve ==
    LET compressedFiles ==
            Append(batch.out, Compressed(batch.files[batch.i + 1]))
    IN IF batch.i + 1 < Len(batch.files)
       THEN /\ batch' = [batch EXCEPT !.i = batch.i + 1,
                                      !.done = batch.done + 1,
                                      !.out = compressedFiles]
            /\ UNCHANGED <<listVars, isCompressing>>
       ELSE /\ batch' = [NoBatch EXCEPT !.i = batch.i + 1,
                                        !.done = batch.done + 1]
            /\ imageFiles' = compressedFiles
            /\ isCompressing' = FALSE
            /\ UNCHANGED <<selectedImageIndex, cropCallback, uploaded,
                           cropped>>

\* The toBlob callback of tryCompress with a blob of sizeKB.
ToBlobDone(sizeKB) ==
    /\ search.phase = "encoding"
    /\ LET blob == [size |-> sizeKB, quality |-> search.q]
       IN IF SearchEnds(sizeKB, targetSize, search.attempts)
          THEN /\ AfterResolve
               /\ search' = [search EXCEPT
                                !.phase = IF batch.i + 1 < Len(batch.files)
                                          THEN StartImage.phase
                                          ELSE "resolved",
                                !.lastSize = sizeKB,
                                !.result = ResolvedBlob(search.bestBlob,
                                                        blob)]
               /\ inFlight' = inFlight - 1
          ELSE /\ search' = NarrowSearch(search, blob, targetSize)
               /\ inFlight' = inFlight - 1 + 1
               /\ UNCHANGED <<listVars, isCompressing, batch>>
    /\ UNCHANGED <<targetSize, quality>>
    /\ UNCHANGED <<cropVars, bgVars>>

\* The toBlob callback of tryCompress with null: `if (!blob) return`; the
\* promise is neither resolved nor rejected and no further call is issued.
ToBlobNull ==
    /\ search.phase = "encoding"
    /\ search' = [search EXCEPT !.phase = "abandoned"]
    /\ inFlight' = inFlight - 1
    /\ UNCHANGED <<listVars, targetSize, quality, isCompressing, batch>>
    /\ UNCHANGED <<cropVars, bgVars>>

\* handleCropImage(index) of the Crop button of an image of the list; the
\* button is not disabled while a batch runs.
handleCropImageAt(index) ==
    /\ selectedImageIndex = 0
    /\ index \in 1..nFiles
    /\ selectedImageIndex' = index
    /\ UNCHANGED <<imageFiles, cropCallback, uploaded, cropped>>
    /\ UNCHANGED <<targetSize, quality, isCompressing, batch, search, inFlight>>
    /\ UNCHANGED <<cropVars, bgVars>>

\* The Apply button of the mounted ImageCropper: handleCrop issues toBlob with
\* a callback that calls the onCropComplete of this render, whose closure
\* holds selectedImageIndex and imageFiles[selectedImageIndex].file (undefined
\* when a finished batch has shortened the list below the index).
CropRequested ==
    /\ selectedImageIndex # 0
    /\ cropCallback = NoCallback
    /\ selectedImageIndex <= nFiles =>
           imageFiles[selectedImageIndex].file.crops < MaxCrops
    /\ cropCallback' = [index |-> selectedImageIndex,
                        file |-> IF selectedImageIndex <= nFiles
                                 THEN imageFiles[selectedImageIndex].file
                                 ELSE NoFile]
    /\ UNCHANGED <<imageFiles, selectedImageIndex, uploaded, cropped>>
    /\ UNCHANGED <<targetSize, quality, isCompressing, batch, search, inFlight>>
    /\ UNCHANGED <<cropVars, bgVars>>

\* The entry handleCropComplete puts in place of entry: file, preview and
\* originalSize of the cropped blob, compressedSize and compressedBlob
\* undefined.
CroppedEntry(entry, croppedFile) ==
    [entry EXCEPT !.file = croppedFile,
                  !.preview = croppedFile,
                  !.originalSize = croppedFile,
                  !.compressedSize = NoFile,
                  !.compressedBlob = NoFile]

\* handleCropComplete(croppedBlob), called by the toBlob callback of the
\* cropper, followed by onClose.  Reading .file.name of an undefined entry
\* throws before any state is set, and onClose is not reached.
handleCropComplete ==
    /\ cropCallback # NoCallback
    /\ cropCallback' = NoCallback
    /\ IF cropCallback.file = NoFile
       THEN UNCHANGED <<imageFiles, selectedImageIndex, cropped>>
       ELSE LET croppedFile == [src |-> cropCallback.file.src,
                                crops |-> cropCallback.file.crops + 1]
            IN /\ imageFiles' =
                      [index \in 1..nFiles |->
                          IF index = cropCallback.index
                          THEN CroppedEntry(imageFiles[index], croppedFile)
                          ELSE imageFiles[index]]
               /\ selectedImageIndex' = 0
               /\ cropped' = IF cropCallback.index <= nFiles
                             THEN cropped \cup {croppedFile.src}
                             ELSE cropped
    /\ UNCHANGED uploaded
    /\ UNCHANGED <<targetSize, quality, isCompressing, batch, search, inFlight>>
    /\ UNCHANGED <<cropVars, bgVars>>

\* onClose of the cropper (Cancel, Escape): a toBlob callback that has not
\* run yet stays outstanding.
CropperClosed ==
    /\ selectedImageIndex # 0
    /\ selectedImageIndex' = 0
    /\ UNCHANGED <<imageFiles, cropCallback, uploaded, cropped>>
    /\ UNCHANGED <<targetSize, quality, isCompressing, batch, search, inFlight>>
    /\ UNCHANGED <<cropVars, bgVars>>

----------------------------------------------------------------------------
\* Background remover (part_000: BackgroundRemover).

\* Background colours the user picks (two of PRESET_COLORS).
Colours == {"#ffffff", "#000000"}

\* A Blob produced by run `by`, rendered over `colour`; by = 0 is null.
NoBgBlob == [by |-> 0, colour |-> "none"]

\* What `await segmenter(imageData)` yields: a rejection, or a value described
\* by what the validation of removeBackground inspects.
SegResults ==
    { [rejects |-> TRUE,  defined |-> FALSE, array |-> FALSE, length |-> 0, mask |-> FALSE],
      [rejects |-> FALSE, defined |-> FALSE, array |-> FALSE, length |-> 0, mask |-> FALSE],
      [rejects |-> FALSE, defined |-> TRUE,  array |-> FALSE, length |-> 0, mask |-> FALSE],
      [rejects |-> FALSE, defined |-> TRUE,  array |-> TRUE,  length |-> 0, mask |-> FALSE],
      [rejects |-> FALSE, defined |-> TRUE,  array |-> TRUE,  length |-> 1, mask |-> FALSE],
      [rejects |-> FALSE, defined |-> TRUE,  array |-> TRUE,  length |-> 1, mask |-> TRUE] }

\* `!result || !Array.isArray(result) || result.length === 0 || !result[0].mask`
InvalidResult(result) ==
    \/ ~result.defined
    \/ ~result.array
    \/ result.length = 0
    \/ ~result.mask

\* MAX_IMAGE_DIMENSION
MAX_IMAGE_DIMENSION == 1024

\* document.createElement('canvas'): 300 x 150 until its size is set.
NewCanvas == [width |-> 300, height |-> 150]

\* No call of resizeImageIfNeeded has been made.
NoResize == [image |-> [naturalWidth |-> 0, naturalHeight |-> 0],
             canvas |-> NewCanvas, called |-> FALSE, returned |-> FALSE]

\* resizeImageIfNeeded(canvas, ctx, image): the size given to the canvas and
\* the value returned.
resizeImageIfNeeded(image) ==
    LET width == image.naturalWidth
        height == image.naturalHeight
    IN IF width > MAX_IMAGE_DIMENSION \/ height > MAX_IMAGE_DIMENSION
       THEN IF width > height
            THEN [width |-> MAX_IMAGE_DIMENSION,
                  height |-> Round(height * MAX_IMAGE_DIMENSION, width),
                  returned |-> TRUE]
            ELSE [width |-> Round(width * MAX_IMAGE_DIMENSION, height),
                  height |-> MAX_IMAGE_DIMENSION,
                  returned |-> TRUE]
       ELSE [width |-> width, height |-> height, returned |-> FALSE]

\* The call of resizeImageIfNeeded in removeBackground.
ResizeCalled ==
    /\ ~resizeCall.called
    /\ LET r == resizeImageIfNeeded(resizeCall.image)
       IN resizeCall' = [resizeCall EXCEPT
                            !.canvas = [width |-> r.width,
                                        height |-> r.height],
                            !.called = TRUE,
                            !.returned = r.returned]
    /\ UNCHANGED <<bgOpen, isProcessing, progress, backgroundColor,
                   previewImage, processedBlob, bgRuns, bgDone, bgApplied,
                   bgOps>>
    /\ UNCHANGED <<cropVars, compVars>>

InitBgDialog ==
    /\ bgOpen = TRUE
    /\ isProcessing = FALSE
    /\ progress = 0
    /\ backgroundColor = "#ffffff"
    /\ previewImage = NoBgBlob
    /\ processedBlob = NoBgBlob
    /\ bgRuns = {}
    /\ bgDone = {}
    /\ bgApplied = <<>>
    /\ bgOps = 0

InitBg == InitBgDialog /\ resizeCall = NoResize

\* A call of loadImage followed by removeBackground is under way: the run of
\* handleRemoveBackground ("remove") or of handleColorChange ("recolour")
\* numbered id, suspended at the await named by phase. removeBackground is
\* the callback of the render the handler belongs to: colour is the
\* backgroundColor of that render.
StartRun(kind) ==
    /\ bgOps < MaxBgRuns
    /\ bgOps' = bgOps + 1
    /\ bgRuns' = bgRuns \cup { [id |-> bgOps + 1, kind |-> kind,
                                phase |-> "loadImage",
                                colour |-> backgroundColor] }

\* handleRemoveBackground up to its first await; the button is disabled while
\* isProcessing.
handleRemoveBackground ==
    /\ bgOpen
    /\ ~isProcessing
    /\ isProcessing' = TRUE
    /\ progress' = 0
    /\ previewImage' = NoBgBlob
    /\ processedBlob' = NoBgBlob
    /\ StartRun("remove")
    /\ UNCHANGED <<bgOpen, backgroundColor, bgDone, bgApplied>>
    /\ UNCHANGED <<cropVars, compVars, resizeCall>>

\* handleColorChange up to its first await; the swatches and inputs are never
\* disabled.
handleColorChange(newColor) ==
    /\ bgOpen
    /\ backgroundColor' = newColor
    /\ IF processedBlob # NoBgBlob
          THEN StartRun("recolour")
          ELSE UNCHANGED <<bgRuns, bgOps>>
    /\ UNCHANGED <<bgOpen, isProcessing, progress, previewImage, processedBlob,
                   bgDone, bgApplied>>
    /\ UNCHANGED <<cropVars, compVars, resizeCall>>

\* The run moves to its next await.
Advance(run, phase) ==
    bgRuns' = (bgRuns \ {run}) \cup {[run EXCEPT !.phase = phase]}

\* The try block of the handler completes with the blob of removeBackground.
\* handleRemoveBackground: lines 194-201 and the finally block;
\* handleColorChange: lines 224-229.
RunSucceeds(run) ==
    LET blob == [by |-> run.id, colour |-> run.colour]
    IN /\ bgRuns' = bgRuns \ {run}
       /\ processedBlob' = blob
       /\ previewImage' = blob
       /\ IF run.kind = "remove"
             THEN /\ bgDone' = bgDone \cup
                        {[id |-> run.id, kind |-> run.kind, ok |-> TRUE,
                          cause |-> "none", toast |-> "Success!"]}
                  /\ isProcessing' = FALSE
                  /\ progress' = 0
             ELSE /\ bgDone' = bgDone \cup
                        {[id |-> run.id, kind |-> run.kind, ok |-> TRUE,
                          cause |-> "none", toast |-> "none"]}
                  /\ isProcessing' = isProcessing
                  /\ progress' = 100

\* An await of the try block rejects, for the cause named. handleRemoveBackground:
\* the catch block (destructive toast "Error") and the finally block;
\* handleColorChange: the catch block, which only writes to the console.
RunFails(run, cause) ==
    /\ bgRuns' = bgRuns \ {run}
    /\ IF run.kind = "remove"
          THEN /\ bgDone' = bgDone \cup
                     {[id |-> run.id, kind |-> run.kind, ok |-> FALSE,
                       cause |-> cause, toast |-> "Error"]}
               /\ isProcessing' = FALSE
               /\ progress' = 0
          ELSE /\ bgDone' = bgDone \cup
                     {[id |-> run.id, kind |-> run.kind, ok |-> FALSE,
                       cause |-> cause, toast |-> "none"]}
               /\ UNCHANGED <<isProcessing, progress>>
    /\ UNCHANGED <<previewImage, processedBlob>>

\* loadImage settles: img.onload resolves, img.onerror rejects. On success
\* removeBackground runs up to `await pipeline(...)`.
BgImageLoaded(run, ok) ==
    /\ run \in bgRuns
    /\ run.phase = "loadImage"
    /\ IF ok
          THEN /\ Advance(run, "pipeline")
               /\ progress' = 20
               /\ UNCHANGED <<isProcessing, previewImage, processedBlob, bgDone>>
          ELSE RunFails(run, "loadImage")
    /\ UNCHANGED <<bgOpen, backgroundColor, bgApplied, bgOps>>
    /\ UNCHANGED <<cropVars, compVars, resizeCall>>

\* pipeline(...) settles; on success removeBackground takes a 2d context
\* (null: it throws), draws the image and runs up to `await segmenter(...)`.
PipelineReady(run, ok, ctxOk) ==
    /\ run \in bgRuns
    /\ run.phase = "pipeline"
    /\ IF ok /\ ctxOk
          THEN /\ Advance(run, "segmenter")
               /\ progress' = 60
               /\ UNCHANGED <<isProcessing, previewImage, processedBlob, bgDone>>
          ELSE RunFails(run, IF ok THEN "context" ELSE "pipeline")
    /\ UNCHANGED <<bgOpen, backgroundColor, bgApplied, bgOps>>
    /\ UNCHANGED <<cropVars, compVars, resizeCall>>

\* segmenter(...) settles; a valid result is composited (a null output or
\* final context throws) and removeBackground runs up to the toBlob call.
Segmented(run, result, ctxOk) ==
    /\ run \in bgRuns
    /\ run.phase = "segmenter"
    /\ IF ~result.rejects /\ ~InvalidResult(result) /\ ctxOk
          THEN /\ Advance(run, "toBlob")
               /\ progress' = 100
               /\ UNCHANGED <<isProcessing, previewImage, processedBlob, bgDone>>
          ELSE RunFails(run, IF result.rejects THEN "segmenter"
                             ELSE IF InvalidResult(result) THEN "invalidResult"
                             ELSE "context")
    /\ UNCHANGED <<bgOpen, backgroundColor, bgApplied, bgOps>>
    /\ UNCHANGED <<cropVars, compVars, resizeCall>>

\* The toBlob callback of removeBackground: resolve(blob), or reject on null.
BgToBlob(run, blobOk) ==
    /\ run \in bgRuns
    /\ run.phase = "toBlob"
    /\ IF blobOk THEN RunSucceeds(run) ELSE RunFails(run, "toBlob")
    /\ UNCHANGED <<bgOpen, backgroundColor, bgApplied, bgOps>>
    /\ UNCHANGED <<cropVars, compVars, resizeCall>>

\* handleApply; the button is disabled without a processedBlob and while
\* isProcessing. onClose closes the dialog.
handleApply ==
    /\ bgOpen
    /\ ~isProcessing
    /\ processedBlob # NoBgBlob
    /\ bgApplied' = Append(bgApplied, processedBlob)
    /\ bgOpen' = FALSE
    /\ UNCHANGED <<isProcessing, progress, backgroundColor, previewImage,
                   processedBlob, bgRuns, bgDone, bgOps>>
    /\ UNCHANGED <<cropVars, compVars, resizeCall>>

\* handleReset; the button is disabled while isProcessing and without a
\* preview.
handleReset ==
    /\ bgOpen
    /\ ~isProcessing
    /\ previewImage # NoBgBlob
    /\ previewImage' = NoBgBlob
    /\ processedBlob' = NoBgBlob
    /\ progress' = 0
    /\ backgroundColor' = "#ffffff"
    /\ UNCHANGED <<bgOpen, isProcessing, bgRuns, bgDone, bgApplied, bgOps>>
    /\ UNCHANGED <<cropVars, compVars, resizeCall>>

\* handleClose: the Cancel button (disabled while isProcessing) or the
\* dialog's onOpenChange (Escape, click outside), which is never disabled.
handleClose ==
    /\ bgOpen
    /\ previewImage' = NoBgBlob
    /\ processedBlob' = NoBgBlob
    /\ progress' = 0
    /\ bgOpen' = FALSE
    /\ UNCHANGED <<isProcessing, backgroundColor, bgRuns, bgDone, bgApplied,
                   bgOps>>
    /\ UNCHANGED <<cropVars, compVars, resizeCall>>

----------------------------------------------------------------------------
\* Specifications: the crop dialog, the compressor and the background remover
\* are separate components that share no state; each is explored with the
\* others at rest.

Init == InitCrop /\ InitComp /\ InitBg

\* The canvas event wiring, with the pointer position of the event.
onMouseDown == \E pos \in Pointers : handleMouseDown(pos)
onTouchStart == \E pos \in Pointers : handleTouchStart(pos)
onMouseMove == \E pos \in Pointers : handleMouseMove(pos)
onTouchMove == \E pos \in Pointers : handleTouchMove(pos)

Next ==
    \/ \E image \in ImageSizes : ImgOnload(image)
    \/ onMouseDown
    \/ onTouchStart
    \/ onMouseMove
    \/ onTouchMove
    \/ handleMouseUp
    \/ handleTouchEnd
    \/ RotateLeft
    \/ RotateRight
    \/ resetCrop
    \/ \E ctxOk \in BOOLEAN : handleCrop(ctxOk)
    \/ \E blobOk \in BOOLEAN : ToBlobCallback(blobOk)
    \/ Cancel

Spec == Init /\ [][Next]_vars

\* The crop dialog over several sessions: Spec follows one mounted
\* ImageCropper; here the parent mounts a new one after a close.
NextSessions ==
    \/ Next
    \/ handleCropImage

SpecSessions == Init /\ [][NextSessions]_vars

NextCompress ==
    \/ \E n \in 1..MaxFiles : handleFileUpload(n)
    \/ \E t \in TargetSizes : SetTargetSize(t)
    \/ \E q \in SliderQualities : SetQuality(q)
    \/ handleCompress
    \/ CompressOnload
    \/ CompressLoadFails
    \/ \E sizeKB \in BlobSizes : ToBlobDone(sizeKB)
    \/ ToBlobNull

SpecCompress == Init /\ [][NextCompress]_vars

\* Sizes, in KB, of the blobs the encoder returns while the list is edited.
ListBlobSizes == {90}

\* The image list of the compressor: uploads, crops and batches interleaved.
NextList ==
    \/ \E n \in 1..MaxFiles : handleFileUpload(n)
    \/ \E t \in TargetSizes : SetTargetSize(t)
    \/ handleCompress
    \/ CompressOnload
    \/ \E sizeKB \in ListBlobSizes : ToBlobDone(sizeKB)
    \/ \E index \in 1..MaxFiles : handleCropImageAt(index)
    \/ CropRequested
    \/ handleCropComplete
    \/ CropperClosed

SpecList == Init /\ [][NextList]_vars

\* Natural widths and heights of the images handed to resizeImageIfNeeded.
ImageSides == {1, 2, 3, 500, 1023, 1024, 1025, 1536, 2047, 2048, 2049, 5000}

\* resizeImageIfNeeded applied to a loaded image and a new canvas.
InitResize ==
    /\ InitCrop
    /\ InitComp
    /\ InitBgDialog
    /\ \E w \in ImageSides : \E h \in ImageSides :
          resizeCall = [NoResize EXCEPT
                           !.image = [naturalWidth |-> w, naturalHeight |-> h]]

NextResize == ResizeCalled

SpecResize == InitResize /\ [][NextResize]_vars

\* The hit-test of the pointer-down handlers, applied to pointer positions on
\* and around the hit-boxes of the handles. The sessions start in the state
\* img.onload leaves for an image: one larger than the canvas limits, one
\* smaller, and one whose rectangle is as wide as two mouse handle sizes.
HitImages == { [width |-> 1200, height |-> 800],
               [width |-> 80,   height |-> 60],
               [width |-> 48,   height |-> 48] }

InitHitTest ==
    /\ InitComp
    /\ InitBg
    /\ variant \in BOOLEAN
    /\ dialogOpen = TRUE
    /\ imageLoaded = TRUE
    /\ img \in HitImages
    /\ canvas = CanvasAfterDraw(CanvasFor(img), img, 0)
    /\ cropArea = InitialArea(CanvasFor(img))
    /\ isDragging = FALSE
    /\ isResizing = FALSE
    /\ resizeHandle = "null"
    /\ dragStart = [x |-> 0, y |-> 0]
    /\ isTouch = FALSE
    /\ rotation = 0
    /\ cropJob = NoJob
    /\ toasts = 0
    /\ delivered = 0
    /\ lastOp = [op |-> "imgOnload", mode |-> "idle"]
    /\ steps = 1

\* Offsets from the rectangle's left (top) edge of the probed positions: the
\* bounds of the hit-boxes for the handle size of the current render, the
\* edges, the middle, and a point on each side of the middle two handle
\* sizes from the nearer end.
HitOffsets(length) ==
    LET hs == getHandleSize(isTouch)
    IN {-hs, 0, hs, 2 * hs, length \div 2, length - 2 * hs, length - hs,
        length, length + hs}

HitPointers ==
    { [x |-> cropArea.x + dx, y |-> cropArea.y + dy] :
        dx \in HitOffsets(cropArea.width), dy \in HitOffsets(cropArea.height) }

hitMouseDown == \E pos \in HitPointers : handleMouseDown(pos)
hitTouchStart == \E pos \in HitPointers : handleTouchStart(pos)

NextHitTest ==
    \/ hitMouseDown
    \/ hitTouchStart

SpecHitTest == InitHitTest /\ [][NextHitTest]_vars

\* handleCrop and the rotate buttons applied to the rectangles a session
\* leaves on a rotated canvas. The sessions start in the state reached by loading an image, rotating, and
\* dragging the default rectangle (or resizing it by its east handle): the
\* rectangles are the default one, the ones dragged to the canvas sides and
\* corners, and a widened one at each of these places.
ExtractAreas(initial, cv) ==
    LET far == (maxWidth + maxHeight) * PX
        dragged == { DragArea(initial, dx, dy, cv) :
                        dx \in {-far, 0, far}, dy \in {-far, 0, far} }
    IN dragged \cup
       { DragArea(ResizeArea(initial, "e", MIN_SIZE * PX, 0, cv), dx, 0, cv) :
            dx \in {-far, 0} }

InitExtract ==
    /\ InitComp
    /\ InitBg
    /\ variant \in BOOLEAN
    /\ dialogOpen = TRUE
    /\ imageLoaded = TRUE
    /\ img \in ImageSizes
    /\ rotation \in QuarterTurns
    /\ canvas = CanvasAfterDraw(CanvasFor(img), img, rotation)
    /\ cropArea \in ExtractAreas(InitialArea(CanvasFor(img)), canvas)
    /\ isDragging = FALSE
    /\ isResizing = FALSE
    /\ resizeHandle = "null"
    /\ dragStart = [x |-> 0, y |-> 0]
    /\ isTouch = FALSE
    /\ cropJob = NoJob
    /\ toasts = 0
    /\ delivered = 0
    /\ lastOp = [op |-> "imgOnload", mode |-> "idle"]
    /\ steps = 1

NextExtract ==
    \/ RotateLeft
    \/ RotateRight
    \/ \E ctxOk \in BOOLEAN : handleCrop(ctxOk)
    \/ \E blobOk \in BOOLEAN : ToBlobCallback(blobOk)

SpecExtract == InitExtract /\ [][NextExtract]_vars

\* The background remover: the user's commands and the settling of the awaits
\* of the runs under way.
NextBackground ==
    \/ handleRemoveBackground
    \/ \E newColor \in Colours : handleColorChange(newColor)
    \/ \E run \in bgRuns, ok \in BOOLEAN : BgImageLoaded(run, ok)
    \/ \E run \in bgRuns, ok \in BOOLEAN, ctxOk \in BOOLEAN :
            PipelineReady(run, ok, ctxOk)
    \/ \E run \in bgRuns, result \in SegResults, ctxOk \in BOOLEAN :
            Segmented(run, result, ctxOk)
    \/ \E run \in bgRuns, blobOk \in BOOLEAN : BgToBlob(run, blobOk)
    \/ handleApply
    \/ handleReset
    \/ handleClose

SpecBackground == Init /\ [][NextBackground]_vars

\* The browser eventually fires the load (or error) event of an image whose
\* src was set, and eventually invokes the callback of a toBlob call.
FairCompress ==
    /\ SpecCompress
    /\ WF_vars(CompressOnload \/ CompressLoadFails)
    /\ WF_vars((\E sizeKB \in BlobSizes : ToBlobDone(sizeKB)) \/ ToBlobNull)

----------------------------------------------------------------------------
\* Properties.

\* The rectangle lies fully inside the canvas.
InsideCanvas(area, cv) ==
    /\ area.x >= 0 /\ area.y >= 0
    /\ area.x + area.width <= cv.width * PX
    /\ area.y + area.height <= cv.height * PX

\* Width and height are at least the minimum size.
MinSizeOK(area) ==
    area.width >= MIN_SIZE * PX /\ area.height >= MIN_SIZE * PX

\* The last handler was a pointer-move taken in the given mode.
MovedIn(mode) ==
    lastOp'.op = "handleMouseMove" /\ lastOp'.mode = mode

\* The half-source-pixel value c2 is within one source pixel of n/d.
NearRational(c2, n, d) == Abs(c2 * d - 2 * n) <= 2 * d

\* The extraction job shows, at each corner of its output, the source-image
\* point that drawCanvas shows at the matching corner of the rectangle (to
\* within the one source pixel that rounding to whole pixels costs), and the
\* drawn patch covers the whole output.
RoundTrip(job, area, rot, image, cv) ==
    \A i \in {0, 1} : \A j \in {0, 1} :
        LET ox == i * job.outW
            oy == j * job.outH
            out == OutputSource(job, ox, oy)
            px == area.x + i * area.width
            py == area.y + j * area.height
            shown == IF variant
                     THEN VariantDisplaySource(px, py, rot, image, cv)
                     ELSE DisplaySource(px, py, rot, image, cv)
        IN /\ Covered(job, ox, oy)
           /\ NearRational(out.u2, shown.un, shown.ud)
           /\ NearRational(out.v2, shown.vn, shown.vd)

\* handleCrop has just issued an extraction (no error path was taken).
Extracted ==
    lastOp'.op = "handleCrop" /\ toasts' = toasts /\ cropJob'.state = "pending"

\* C1: for every rotation and every crop rectangle inside the canvas, the
\* image handleCrop produces shows exactly the content drawCanvas displayed
\* inside the rectangle on the rotated canvas (round-trip identity).
C1_RoundTripIdentity ==
    [][(Extracted /\ InsideCanvas(cropArea, canvas))
        => RoundTrip(cropJob', cropArea, rotation, img, canvas)]_vars

\* C2: a resize pointer-move that starts from a rectangle inside the canvas
\* with width and height >= 50 yields a rectangle inside the canvas with
\* width and height >= 50, for every handle and delta (hence so does every
\* sequence of such moves).
C2_ResizeStaysInBounds ==
    [][(MovedIn("resizing") /\ InsideCanvas(cropArea, canvas)
                            /\ MinSizeOK(cropArea))
        => (InsideCanvas(cropArea', canvas) /\ MinSizeOK(cropArea'))]_vars

\* C3: in every state of the dialog the crop rectangle has x >= 0, y >= 0,
\* width >= 50 and height >= 50.
C3_RectangleInvariant ==
    cropArea.x >= 0 /\ cropArea.y >= 0 /\ MinSizeOK(cropArea)

\* The edges a handle does not control keep their position.
OtherEdgesKept(handle, old, new) ==
    /\ handle \notin {"w", "nw", "sw"} => new.x = old.x
    /\ handle \notin {"e", "ne", "se"} => new.x + new.width = old.x + old.width
    /\ handle \notin {"n", "nw", "ne"} => new.y = old.y
    /\ handle \notin {"s", "sw", "se"} => new.y + new.height = old.y + old.height

\* C4: a resize step moves only the edges its handle controls; every other
\* edge, in particular the one opposite the dragged edge, keeps its position
\* for every delta, clamped deltas included.
C4_ResizeMovesOnlyItsEdges ==
    [][MovedIn("resizing")
        => OtherEdgesKept(resizeHandle, cropArea, cropArea')]_vars

\* v clamped into [lo, hi].
Clamped(v, lo, hi) == IF v < lo THEN lo ELSE IF v > hi THEN hi ELSE v

\* C5: a pointer-move taken in Dragging mode, from a rectangle inside the
\* canvas, leaves width and height unchanged and sets the position to the
\* previous position plus the pointer delta, clamped so that the rectangle
\* lies fully inside the canvas.
C5_DragTranslatesClamped ==
    [][(MovedIn("dragging") /\ InsideCanvas(cropArea, canvas))
        => /\ cropArea'.width = cropArea.width
           /\ cropArea'.height = cropArea.height
           /\ cropArea'.x = Clamped(cropArea.x + dragStart'.x - dragStart.x,
                                    0, canvas.width * PX - cropArea.width)
           /\ cropArea'.y = Clamped(cropArea.y + dragStart'.y - dragStart.y,
                                    0, canvas.height * PX - cropArea.height)
           /\ InsideCanvas(cropArea', canvas)]_vars

\* A drag move whose delta overshoots the canvas edge has been clamped: the
\* rectangle kept its initial size and sits against the right edge.
C5_Witness ==
    /\ lastOp.op = "handleMouseMove" /\ lastOp.mode = "dragging"
    /\ imageLoaded
    /\ cropArea.width = InitialArea(canvas).width
    /\ cropArea.x = canvas.width * PX - cropArea.width
    /\ dragStart.x = canvas.width * PX

\* C6: isDragging and isResizing are never both true.
C6_OneModeActive == ~(isDragging /\ isResizing)

\* C7: from Idle, a pointer-down on a resize handle enters Resizing with that
\* handle, a pointer-down on no handle but inside the rectangle enters
\* Dragging, a pointer-down elsewhere stays Idle; the rectangle is unchanged.
C7_PointerDownFromIdle ==
    [][(lastOp'.op \in {"handleMouseDown", "handleTouchStart"}
        /\ ~isDragging /\ ~isResizing /\ resizeHandle = "null")
        => LET hit == getResizeHandle(dragStart'.x, dragStart'.y, cropArea,
                                      getHandleSize(isTouch))
           IN /\ cropArea' = cropArea
              /\ hit # "null"
                    => (isResizing' /\ resizeHandle' = hit /\ ~isDragging')
              /\ (hit = "null" /\ InsideArea(dragStart', cropArea))
                    => (isDragging' /\ ~isResizing' /\ resizeHandle' = "null")
              /\ (hit = "null" /\ ~InsideArea(dragStart', cropArea))
                    => (~isDragging' /\ ~isResizing' /\ resizeHandle' = "null")
      ]_vars

\* A pointer-down from Idle has landed on the handle in the middle of the
\* loaded rectangle's right edge, where the point is also inside the rectangle.
C7_Witness ==
    /\ lastOp.op = "handleMouseDown" /\ lastOp.mode = "idle"
    /\ imageLoaded
    /\ isResizing /\ resizeHandle = "e" /\ ~isDragging
    /\ InsideArea(dragStart, cropArea)

\* C8: from Resizing or Dragging, pointer-up / pointer-leave / touch-end /
\* touch-cancel returns to Idle and leaves the crop rectangle as it is.
C8_PointerUpReturnsToIdle ==
    [][(lastOp'.op = "handleMouseUp" /\ (isDragging \/ isResizing))
        => /\ ~isDragging' /\ ~isResizing' /\ resizeHandle' = "null"
           /\ cropArea' = cropArea]_vars

\* A pointer-up has ended a resize whose moves changed the loaded rectangle.
C8_Witness ==
    /\ lastOp.op = "handleMouseUp" /\ lastOp.mode = "resizing"
    /\ imageLoaded
    /\ cropArea # InitialArea(canvas)
    /\ ~isDragging /\ ~isResizing /\ resizeHandle = "null"

\* C9: a search whose encoder always returns a blob issues at most 10
\* encode (canvas.toBlob) calls.
C9_AtMostTenEncodes == search.calls <= maxAttempts

\* C10: after a non-terminal encode at quality q, a size over the target
\* makes maxQuality = q and the next quality (minQuality + q) / 2; a size under
\* the target makes minQuality = q and the next quality (q + maxQuality) / 2.
\* With target 100KB, initial quality 0.8 and a size of 250KB the next quality
\* is 0.45.
C10_BoundUpdate ==
    [][(search.phase = "encoding" /\ search'.phase = "encoding"
        /\ search'.calls = search.calls + 1 /\ targetSize # 0)
        => LET size == search'.lastSize
           IN /\ size > targetSize
                    => /\ search'.maxQuality = search.q
                       /\ search'.minQuality = search.minQuality
                       /\ 2 * search'.q = search.minQuality + search.q
              /\ size < targetSize
                    => /\ search'.minQuality = search.q
                       /\ search'.maxQuality = search.maxQuality
                       /\ 2 * search'.q = search.q + search.maxQuality
              /\ (targetSize = 100 /\ size = 250 /\ search.calls = 1
                  /\ 10 * search.q = 8 * QUnit)
                    => 100 * search'.q = 45 * QUnit
      ]_vars

\* The scenario of C10: target 100KB, first encode at 0.8 reported 250KB, the
\* second encode is in flight at 0.45 with maxQuality 0.8.
C10_Witness ==
    /\ search.phase = "encoding" /\ search.calls = 2
    /\ targetSize = 100 /\ search.lastSize = 250
    /\ 10 * search.maxQuality = 8 * QUnit
    /\ 100 * search.q = 45 * QUnit

\* The toBlob callback of the running search has just delivered a blob (its
\* size is search'.lastSize, its quality search.q).
Encoded == search.phase = "encoding" /\ search'.phase # "abandoned"

\* That callback resolved the promise of compressImage.
ResolvedNow == Encoded /\ search'.phase \in {"loading", "resolved"}

\* |size - target| <= 0.1 * target, for a target that is a number.
InTolerance(size) ==
    targetSize # 0 /\ 10 * Abs(size - targetSize) <= targetSize

\* C11: the search stops at the first encode whose size is within 10% of the
\* target: it resolves with exactly that blob and issues no further encode
\* call; and a run that resolves before its attempts are exhausted returns a
\* blob within that tolerance.
C11_StopsAtFirstWithinTolerance ==
    [][/\ (Encoded /\ InTolerance(search'.lastSize))
            => /\ ResolvedNow
               /\ search'.result = [size |-> search'.lastSize,
                                    quality |-> search.q]
               /\ search'.calls = search.calls
       /\ (ResolvedNow /\ search.attempts < maxAttempts)
            => /\ InTolerance(search'.result.size)
               /\ search'.result.size = search'.lastSize
       /\ search.phase = "resolved" => search'.calls <= search.calls
      ]_vars

\* A search with target 100KB resolved at its third encode, which reported
\* 90KB, after two encodes outside the tolerance.
C11_Witness ==
    /\ search.phase = "resolved" /\ search.calls = 3 /\ search.attempts = 2
    /\ targetSize = 100 /\ search.result.size = 90
    /\ search.bestBlob.size = 50

\* C12: when the attempts are exhausted and no encode landed within
\* tolerance, the resolved blob is the one of the final encode call, not the
\* remembered bestBlob, whatever the sizes of the two.
C12_ExhaustionReturnsLastBlob ==
    [][(ResolvedNow /\ ~InTolerance(search'.lastSize))
        => /\ search.attempts >= maxAttempts
           /\ search'.result = [size |-> search'.lastSize,
                                quality |-> search.q]
      ]_vars

\* An exhausted search with target 100KB resolved the 250KB blob of its final
\* encode although it remembers a 50KB blob, which is under the target and
\* closer to it.
C12_Witness ==
    /\ search.phase = "resolved" /\ search.attempts >= maxAttempts
    /\ targetSize = 100
    /\ search.result.size = 250 /\ search.lastSize = 250
    /\ search.bestBlob.size = 50
    /\ search.result # search.bestBlob

\* C13: when the encoder returns no data (a null blob) for one image of a
\* batch, the search for that image is abandoned, the remaining images are
\* still compressed and the batch eventually completes: isCompressing returns
\* to false.
C13_NullBlobBatchCompletes ==
    (search.phase = "abandoned") ~> (~isCompressing)

\* C14: at most one encode call is in flight at any time: a toBlob is issued
\* only when no other is outstanding (the first of a search) or from the
\* callback of the previous one, the search of the next image starts only
\* when the search of the current image has resolved, and while isCompressing
\* is true no second batch starts (the loop index never restarts).
C14_OneEncodeInFlight ==
    [][/\ inFlight' <= 1
       /\ search'.calls > search.calls
            => (inFlight = 0 \/ (Encoded /\ inFlight = 1))
       /\ batch'.i > batch.i => ResolvedNow
       /\ isCompressing => batch'.i >= batch.i
      ]_vars

\* The search of the second image of a batch has its second encode in
\* flight, issued from the callback of its first.
C14_Witness ==
    /\ isCompressing /\ batch.i = 1 /\ batch.done = 1
    /\ search.phase = "encoding" /\ search.calls = 2
    /\ inFlight = 1

\* The whole number s is a nearest whole number to the rational n/d (d > 0).
Nearest(s, n, d) == 2 * Abs(s * d - n) <= d

\* The rectangle, canvas and source image of the scale scenario.
ScenarioRect == [x |-> 50 * PX, y |-> 50 * PX,
                 width |-> 200 * PX, height |-> 200 * PX]
ScenarioCanvas == [width |-> maxWidth, height |-> maxHeight]
ScenarioImage == [width |-> 2 * maxWidth, height |-> 2 * maxHeight]

\* C15: at rotation 0 the source rectangle handleCrop extracts is the display
\* rectangle scaled component-wise by source size / canvas size, in whole
\* source pixels: sx = x * scaleX, sy = y * scaleY, width = w * scaleX,
\* height = h * scaleY. Rectangle {50,50,200,200} on a 600x400 canvas over a
\* 1200x800 image gives {100,100,400,400}, in both implementations.
C15_ScaledSourceRectangle ==
    [][/\ (Extracted /\ rotation = 0 /\ canvas.width > 0 /\ canvas.height > 0)
            => LET job == cropJob'
                   dX == PX * canvas.width
                   dY == PX * canvas.height
               IN /\ Nearest(job.sx, cropArea.x * img.width, dX)
                  /\ Nearest(job.sy, cropArea.y * img.height, dY)
                  /\ Nearest(job.sw, cropArea.width * img.width, dX)
                  /\ Nearest(job.sh, cropArea.height * img.height, dY)
       /\ \A ex \in { CropGeometry(ScenarioRect, 0, ScenarioImage,
                                    ScenarioCanvas),
                       VariantGeometry(ScenarioRect, 0, ScenarioImage,
                                       ScenarioCanvas) } :
               /\ ex.sx = 100 /\ ex.sy = 100
               /\ ex.sw = 400 /\ ex.sh = 400
      ]_vars

\* ImageCropper.tsx has extracted, at rotation 0 and scale 2, a rectangle that
\* a drag moved away from its initial place.
C15_Witness ==
    /\ lastOp.op = "handleCrop" /\ cropJob.state = "pending"
    /\ ~variant /\ cropJob.rot = 0
    /\ img = ScenarioImage /\ canvas = ScenarioCanvas
    /\ cropArea # InitialArea(canvas)
    /\ cropJob.sx * PX = 2 * cropArea.x /\ cropJob.sy * PX = 2 * cropArea.y
    /\ cropJob.sw = 400 /\ cropJob.sh = 400

\* C16 as stated: for every rotation, the pixel buffer handleCrop encodes has
\* exactly the dimensions of the display rectangle, round(rect.width) x
\* round(rect.height).
C16_OutputHasDisplaySize ==
    [][Extracted
        => /\ Nearest(cropJob'.outW, cropArea.width, PX)
           /\ Nearest(cropJob'.outH, cropArea.height, PX)]_vars

\* C16 as amended: for every rotation, the pixel buffer handleCrop encodes has
\* the dimensions of the display rectangle scaled to source pixels,
\* round(rect.width * scaleX) x round(rect.height * scaleY); the copy in
\* part_000 exchanges the two at 90 and 270. A 200x200 rectangle on a 600x400
\* canvas over a 1200x800 image yields 400x400 at every rotation.
C16_OutputHasSourceSize ==
    [][/\ (Extracted /\ canvas.width > 0 /\ canvas.height > 0)
            => LET job == cropJob'
                   dX == PX * canvas.width
                   dY == PX * canvas.height
               IN IF variant /\ rotation \in {90, 270}
                  THEN /\ Nearest(job.outW, cropArea.height * img.height, dY)
                       /\ Nearest(job.outH, cropArea.width * img.width, dX)
                  ELSE /\ Nearest(job.outW, cropArea.width * img.width, dX)
                       /\ Nearest(job.outH, cropArea.height * img.height, dY)
       /\ \A r \in {0, 90, 180, 270} :
               LET ex == CropGeometry(ScenarioRect, r, ScenarioImage,
                                      ScenarioCanvas)
               IN ex.outW = 400 /\ ex.outH = 400
      ]_vars

\* ImageCropper.tsx has extracted the 200x200 rectangle at rotation 90 over
\* the 1200x800 image: the tempCanvas is 400x400.
C16_Witness ==
    /\ lastOp.op = "handleCrop" /\ cropJob.state = "pending"
    /\ ~variant /\ cropJob.rot = 90 /\ rotation = 90
    /\ img = ScenarioImage /\ canvas = ScenarioCanvas
    /\ cropArea.width = 200 * PX /\ cropArea.height = 200 * PX
    /\ cropJob.outW = 400 /\ cropJob.outH = 400

\* The extraction the mounted implementation computes at rotation 0 for the
\* rectangle, on the canvas it has at rotation 0.
ZeroCase(area) ==
    LET cv0 == CanvasAfterDraw(canvas, img, 0)
    IN IF variant THEN VariantGeometry(area, 0, img, cv0)
                  ELSE CropGeometry(area, 0, img, cv0)

\* C17: at rotation 90 and 270 the region handleCrop reads from the source
\* image has its width and height swapped relative to the rotation-0 case of
\* the same display rectangle: its width is the scaled rect.height and its
\* height the scaled rect.width.
C17_QuarterTurnSwapsRegion ==
    [][(Extracted /\ rotation \in {90, 270})
        => /\ cropJob'.sw = ZeroCase(cropArea).sh
           /\ cropJob'.sh = ZeroCase(cropArea).sw]_vars

\* The extraction the mounted implementation computes for the rectangle in
\* the current state.
Computed(area) ==
    IF variant THEN VariantGeometry(area, rotation, img, canvas)
               ELSE CropGeometry(area, rotation, img, canvas)

\* C18: handleCrop surfaces an error and produces no output (no
\* onCropComplete, the dialog stays open, nothing is left to encode) whenever
\* the source image is unavailable, the extraction context cannot be
\* acquired, or the computed source rectangle has non-positive width or
\* height.
C18_HandleCropErrors ==
    [][(lastOp'.op \in {"handleCrop", "handleCropNoContext"}
        /\ (\/ img = NullImage
            \/ lastOp'.op = "handleCropNoContext"
            \/ Computed(cropArea).sw <= 0
            \/ Computed(cropArea).sh <= 0))
        => /\ toasts' = toasts + 1
           /\ cropJob' = cropJob
           /\ delivered' = delivered /\ dialogOpen']_vars

\* C19: rotation is always one of 0, 90, 180, 270 and starts at 0; Rotate
\* Right sets it to (r + 90) mod 360 and Rotate Left to (r - 90) mod 360, so
\* Left undoes Right (and Right undoes Left) and four rotations in the same
\* direction return to the starting value; no other event changes it.
C19_RotationQuarterTurns ==
    [][/\ rotation \in QuarterTurns /\ rotation' \in QuarterTurns
       /\ lastOp.op = "init" => rotation = 0
       /\ IF lastOp'.op = "rotateRight" /\ steps' = steps + 1
          THEN rotation' = (rotation + 90) % 360
          ELSE IF lastOp'.op = "rotateLeft" /\ steps' = steps + 1
          THEN rotation' = (rotation + 270) % 360
          ELSE rotation' = rotation
       /\ \A r \in QuarterTurns :
              /\ LeftTurn(RightTurn(r)) = r
              /\ RightTurn(LeftTurn(r)) = r
              /\ RightTurn(RightTurn(RightTurn(RightTurn(r)))) = r
              /\ LeftTurn(LeftTurn(LeftTurn(LeftTurn(r)))) = r
      ]_vars

\* Rotate Left, pressed first in a session, has wrapped the rotation from 0
\* to 270.
C19_Witness ==
    /\ lastOp.op = "rotateLeft" /\ steps = 1 /\ rotation = 270

Corners == {"nw", "ne", "sw", "se"}

\* The point lies in the hit-box of the handle: within handleSize of the
\* corner on both axes for a corner; within handleSize of the edge and at
\* least handleSize from both of its ends for an edge.
InHitBox(handle, pos, area, hs) ==
    LET nearW == Abs(pos.x - area.x) <= hs
        nearE == Abs(pos.x - (area.x + area.width)) <= hs
        nearN == Abs(pos.y - area.y) <= hs
        nearS == Abs(pos.y - (area.y + area.height)) <= hs
        alongX == pos.x >= area.x + hs /\ pos.x <= area.x + area.width - hs
        alongY == pos.y >= area.y + hs /\ pos.y <= area.y + area.height - hs
    IN CASE handle = "nw" -> nearW /\ nearN
         [] handle = "ne" -> nearE /\ nearN
         [] handle = "sw" -> nearW /\ nearS
         [] handle = "se" -> nearE /\ nearS
         [] handle = "n" -> alongX /\ nearN
         [] handle = "s" -> alongX /\ nearS
         [] handle = "e" -> nearE /\ alongY
         [] handle = "w" -> nearW /\ alongY
         [] OTHER -> FALSE

\* The two edges that meet at a corner.
AdjacentEdges(corner) ==
    CASE corner = "nw" -> {"n", "w"}
      [] corner = "ne" -> {"n", "e"}
      [] corner = "sw" -> {"s", "w"}
      [] corner = "se" -> {"s", "e"}

\* C20: in hit-testing a corner handle always wins over an edge handle: a
\* pointer-down at a point that lies in a corner's hit-box and also in the
\* hit-box of an adjacent edge selects a corner handle whose hit-box
\* contains the point, never the edge.
C20_CornerBeatsEdge ==
    [][(lastOp'.op \in {"handleMouseDown", "handleTouchStart"}
        /\ steps' = steps + 1)
        => LET pos == dragStart'
               hs == getHandleSize(isTouch)
           IN \A c \in Corners : \A e \in AdjacentEdges(c) :
                (InHitBox(c, pos, cropArea, hs) /\ InHitBox(e, pos, cropArea, hs))
                    => /\ isResizing'
                       /\ resizeHandle' \in Corners
                       /\ InHitBox(resizeHandle', pos, cropArea, hs)
      ]_vars

\* A mouse-down at the point where the hit-box of the nw corner meets the
\* hit-box of the n edge has selected nw.
C20_Witness ==
    /\ lastOp.op = "handleMouseDown" /\ ~isTouch /\ steps = 2
    /\ cropArea.width > 2 * getHandleSize(FALSE)
    /\ dragStart = [x |-> cropArea.x + getHandleSize(FALSE), y |-> cropArea.y]
    /\ InHitBox("n", dragStart, cropArea, getHandleSize(FALSE))
    /\ InHitBox("nw", dragStart, cropArea, getHandleSize(FALSE))
    /\ isResizing /\ resizeHandle = "nw"

\* Runs of handleRemoveBackground that ended because the segmentation call
\* threw or returned a malformed result.
SegmentationFailures ==
    { d \in bgDone : d.kind = "remove" /\ ~d.ok
                     /\ d.cause \in {"segmenter", "invalidResult"} }

\* C21: when the segmentation call throws or returns a malformed result,
\* handleRemoveBackground shows an error and ends with isProcessing = false
\* and processedBlob = null, and onBackgroundRemoved is not invoked during the
\* run nor ever with a blob of that run.
C21_FailedRemovalLeavesNothing ==
    [][ /\ \A d \in SegmentationFailures' \ SegmentationFailures :
              /\ d.toast = "Error"
              /\ isProcessing' = FALSE
              /\ processedBlob' = NoBgBlob
        /\ isProcessing => bgApplied' = bgApplied
        /\ \A d \in SegmentationFailures' :
              \A i \in 1..Len(bgApplied') : bgApplied'[i].by # d.id ]_vars

\* C22: every failed operation is reported to the user: a crop whose toBlob
\* yields no blob shows an error toast, and a background removal or a
\* re-colouring that throws shows an error toast for that run. (The failures
\* of a compression, and the busy flag they leave set, are the subject of
\* C13.)
C22_FailuresReported ==
    [][ /\ (cropJob.state = "pending" /\ cropJob'.state = "failed")
            => toasts' = toasts + 1
        /\ \A d \in bgDone' \ bgDone : ~d.ok => d.toast = "Error" ]_vars
\* C23: at rotation 180 the source rectangle handleCrop extracts is the
\* display rectangle reflected through the canvas centre and scaled, in whole
\* source pixels: sx = (canvas.width - x - w) * scaleX,
\* sy = (canvas.height - y - h) * scaleY, size (w * scaleX, h * scaleY), in
\* both implementations.
C23_HalfTurnReflects ==
    [][(Extracted /\ rotation = 180 /\ canvas.width > 0 /\ canvas.height > 0)
        => LET cw == canvas.width * PX
               ch == canvas.height * PX
               job == cropJob'
           IN /\ Nearest(job.sx, (cw - cropArea.x - cropArea.width) * img.width, cw)
              /\ Nearest(job.sy, (ch - cropArea.y - cropArea.height) * img.height, ch)
              /\ Nearest(job.sw, cropArea.width * img.width, cw)
              /\ Nearest(job.sh, cropArea.height * img.height, ch)]_vars
Handles == {"nw", "ne", "sw", "se", "n", "s", "e", "w"}

\* The point lies in the square drawCanvas draws for the handle: side
\* handleSize, centred on the corner or on the edge midpoint.
InDrawnSquare(handle, pos, area, hs) ==
    LET midX == 2 * area.x + area.width
        midY == 2 * area.y + area.height
        ax2 == CASE handle \in {"nw", "w", "sw"} -> 2 * area.x
                 [] handle \in {"ne", "e", "se"} -> 2 * (area.x + area.width)
                 [] OTHER -> midX
        ay2 == CASE handle \in {"nw", "n", "ne"} -> 2 * area.y
                 [] handle \in {"sw", "s", "se"} -> 2 * (area.y + area.height)
                 [] OTHER -> midY
    IN Abs(2 * pos.x - ax2) <= hs /\ Abs(2 * pos.y - ay2) <= hs

\* A pointer-down handler ran in a session that was not resizing: the handle
\* getResizeHandle returned for the point dragStart' is resizeHandle'.
HitTested ==
    /\ lastOp'.op \in {"handleMouseDown", "handleTouchStart"}
    /\ steps' = steps + 1
    /\ ~isResizing /\ resizeHandle = "null"

\* C24 as stated: getResizeHandle returns handle H exactly when the point lies
\* in the square of side handleSize centred on H's anchor (a corner, or an
\* edge midpoint), corners taking priority, and no handle for a point outside
\* all eight squares.
C24_HitBoxIsDrawnSquare ==
    [][HitTested
        => LET pos == dragStart'
               hs == getHandleSize(isTouch)
               hit == { h \in Handles : InDrawnSquare(h, pos, cropArea, hs) }
           IN /\ hit = {} => resizeHandle' = "null"
              /\ hit # {} => resizeHandle' \in hit
              /\ hit \cap Corners # {} => resizeHandle' \in Corners
      ]_vars

\* C24, amended: getResizeHandle returns a handle whose hit region contains
\* the point, a corner if any corner's region does, and no handle for a point
\* outside all eight regions; the region of a corner is the square of side
\* 2 * handleSize centred on it, the region of an edge is the band within
\* handleSize of the edge between the regions of its two corners.
C24_HitBoxIsTwiceHandleSize ==
    [][HitTested
        => LET pos == dragStart'
               hs == getHandleSize(isTouch)
               hit == { h \in Handles : InHitBox(h, pos, cropArea, hs) }
           IN /\ hit = {} => resizeHandle' = "null"
              /\ hit # {} => resizeHandle' \in hit
              /\ hit \cap Corners # {} => resizeHandle' \in Corners
      ]_vars

\* A mouse-down a whole handle size outside the nw corner on both axes, and
\* so outside the square drawn for nw, has selected nw; or one on the n edge,
\* two handle sizes from its west end and outside the square drawn at its
\* midpoint, has selected n.
C24_Witness ==
    /\ lastOp.op = "handleMouseDown" /\ ~isTouch /\ steps = 2
    /\ isResizing
    /\ ~InDrawnSquare(resizeHandle, dragStart, cropArea, getHandleSize(FALSE))
    /\ \/ /\ resizeHandle = "nw"
          /\ dragStart = [x |-> cropArea.x - getHandleSize(FALSE),
                          y |-> cropArea.y - getHandleSize(FALSE)]
       \/ /\ resizeHandle = "n"
          /\ dragStart = [x |-> cropArea.x + 2 * getHandleSize(FALSE),
                          y |-> cropArea.y + getHandleSize(FALSE)]
\* A rotate button was pressed with the image loaded.
Rotated ==
    /\ lastOp'.op \in {"rotateLeft", "rotateRight"}
    /\ steps' = steps + 1
    /\ imageLoaded

\* The canvas sides swapped.
AspectFlipped(old, new) ==
    old.width # old.height /\ new.width = old.height /\ new.height = old.width

\* The centre of the rectangle new is at the same fraction of the canvas
\* newCv as the centre of old is of oldCv.
SameRelativePosition(old, oldCv, new, newCv) ==
    /\ (2 * new.x + new.width) * oldCv.width
         = (2 * old.x + old.width) * newCv.width
    /\ (2 * new.y + new.height) * oldCv.height
         = (2 * old.y + old.height) * newCv.height

\* C25: a rotate command leaves the rectangle's x, y, width and height
\* unchanged unless the canvas sides swap; when they swap, the rectangle is
\* recentred to the same relative position and lies inside the new canvas.
\* In either implementation.
C25_RotateKeepsOrRecentres ==
    [][(Rotated /\ InsideCanvas(cropArea, canvas))
        => IF AspectFlipped(canvas, canvas')
           THEN /\ SameRelativePosition(cropArea, canvas, cropArea', canvas')
                /\ InsideCanvas(cropArea', canvas')
           ELSE cropArea' = cropArea]_vars
\* A pointer-down handler, or the pointer-up handler (mouse up or leave,
\* touch end or cancel), ran.
PointerDownOrUp ==
    /\ lastOp'.op \in {"handleMouseDown", "handleTouchStart", "handleMouseUp"}
    /\ steps' = steps + 1

\* C26: only pointer-down and pointer-up/leave/touch-end/cancel change
\* isDragging, isResizing or resizeHandle (pointer-move, rotate, Reset, the
\* image load and every other step leave them alone), and a pointer-move
\* received while Idle leaves the crop rectangle unchanged.
C26_ModeChangesOnDownAndUp ==
    [][/\ ~PointerDownOrUp
            => UNCHANGED <<isDragging, isResizing, resizeHandle>>
       /\ (lastOp'.op = "handleMouseMove" /\ steps' = steps + 1
            /\ Mode = "idle")
            => cropArea' = cropArea]_vars

\* A pointer-move arrived over the default rectangle of a loaded image while
\* Idle, at a different position than the previous event's.
C26_Witness ==
    /\ lastOp = [op |-> "handleMouseMove", mode |-> "idle"]
    /\ imageLoaded /\ steps >= 3
    /\ InsideArea(dragStart, cropArea)
    /\ cropArea = InitialArea(CanvasFor(img))
    /\ Mode = "idle"
\* The two handleCrop implementations, given the same rectangle, rotation,
\* image and canvas, compute different source offsets.
OffsetsDiffer(area, rot, image, cv) ==
    LET main == CropGeometry(area, rot, image, cv)
        copy == VariantGeometry(area, rot, image, cv)
    IN main.sx # copy.sx \/ main.sy # copy.sy

Bracketed(s) ==
    /\ 10 * s.minQuality >= QUnit
    /\ s.minQuality <= s.q /\ s.q <= s.maxQuality
    /\ s.maxQuality <= QUnit

\* C28: throughout a search started at a quality in [0.1, 1.0],
\* 0.1 <= minQuality <= maxQuality <= 1.0, every quality passed to the encoder
\* lies in [minQuality, maxQuality], and a bound update never widens the
\* bracket and strictly narrows it unless the quality just encoded equals a
\* bound.
C28_BracketNarrows ==
    [][/\ search'.phase = "encoding" => Bracketed(search')
       /\ (search.phase = "encoding" /\ search'.phase = "encoding"
           /\ search'.calls = search.calls + 1)
            => /\ search'.minQuality >= search.minQuality
               /\ search'.maxQuality <= search.maxQuality
               /\ search.q \notin {search.minQuality, search.maxQuality}
                    => search'.maxQuality - search'.minQuality
                         < search.maxQuality - search.minQuality
      ]_vars

\* A search has moved both bounds and is encoding at a quality strictly
\* between them.
C28_Witness ==
    /\ search.phase = "encoding" /\ search.calls >= 3
    /\ 10 * search.minQuality > QUnit
    /\ search.maxQuality < QUnit
    /\ search.minQuality < search.q /\ search.q < search.maxQuality
\* C29: closing the crop dialog without applying (no crop outstanding)
\* invokes no onCropComplete, then or while it stays closed, so the image
\* list is not touched; the next time the dialog is opened it is Idle, with
\* rotation 0 and the rectangle of a new dialog, and the image load gives it
\* the default centred rectangle, whatever the rectangle, rotation and mode
\* of the closed session were.
C29_CloseDiscardsCropState ==
    [][/\ (lastOp'.op = "cancel" /\ steps' = steps + 1
           /\ cropJob.state # "pending")
            => ~dialogOpen' /\ delivered' = delivered
       /\ (~dialogOpen /\ cropJob.state # "pending")
            => delivered' = delivered /\ UNCHANGED compVars
       /\ (lastOp'.op = "handleCropImage" /\ steps' = steps + 1)
            => /\ ~isDragging' /\ ~isResizing' /\ resizeHandle' = "null"
               /\ rotation' = 0
               /\ ~imageLoaded'
               /\ cropArea' = [x |-> 50 * PX, y |-> 50 * PX,
                               width |-> 200 * PX, height |-> 200 * PX]
       /\ (lastOp'.op = "imgOnload" /\ steps' = steps + 1
           /\ lastOp.op = "handleCropImage")
            => /\ cropArea' = InitialArea(CanvasFor(img'))
               /\ rotation' = 0
               /\ ~isDragging' /\ ~isResizing' /\ resizeHandle' = "null"
      ]_vars

\* The dialog was closed with Cancel while a drag was under way and has been
\* opened again: it is Idle.
C29_Witness ==
    /\ lastOp = [op |-> "handleCropImage", mode |-> "dragging"]
    /\ dialogOpen /\ delivered = 0 /\ cropJob = NoJob
    /\ Mode = "idle" /\ rotation = 0
\* C30: in every reachable state of the crop dialog isResizing is true if and
\* only if resizeHandle is not null.
C30_ResizingIffHandle == isResizing <=> resizeHandle # "null"

\* A pointer-move was applied in the Resizing mode, with a handle, and a
\* later pointer-up has cleared both.
C30_Witness ==
    /\ lastOp = [op |-> "handleMouseUp", mode |-> "resizing"]
    /\ imageLoaded /\ steps = 4
    /\ ~isResizing /\ resizeHandle = "null"
    /\ cropArea # InitialArea(CanvasFor(img))
\* C31: an image added by handleFileUpload and a crop applied by
\* handleCropComplete are not lost through a compression batch: when
\* handleCompress finishes, the image list holds every image uploaded and
\* shows every crop applied before or while the batch ran.
InList(id) == \E index \in 1..Len(imageFiles) : imageFiles[index].file.src = id

ShowsCrop(id) ==
    \E index \in 1..Len(imageFiles) :
        /\ imageFiles[index].file.src = id
        /\ imageFiles[index].file.crops > 0

C31_BatchLosesNothing ==
    [][(isCompressing /\ ~isCompressing') =>
          /\ \A id \in 1..uploaded' : InList(id)'
          /\ \A id \in cropped' : ShowsCrop(id)']_vars

\* C32: in every state in which handleCompress can be started, the initial
\* state of the settings included, settings.targetSize is a number.
C32_TargetSizeDefined ==
    (~isCompressing /\ selectedImageIndex = 0 /\ nFiles > 0) => targetSize # 0

\* C33: whenever no segmentation run is in flight and a processed blob
\* exists, the blob was composited over the selected background colour.
C33_BlobHasSelectedColour ==
    (bgRuns = {} /\ processedBlob # NoBgBlob) =>
        processedBlob.colour = backgroundColor

\* C34: a completed crop replaces exactly the entry at the selected index
\* (file, preview and originalSize of the cropped blob, compressedSize and
\* compressedBlob cleared), leaves all other entries, their order and the
\* length of the list unchanged and sets selectedImageIndex to null; no entry
\* pairs a file with a compressed result of another file.
CropCompletes == cropCallback # NoCallback /\ cropCallback' = NoCallback

PairedWithOwnFile(entry) ==
    entry.compressedBlob # NoFile =>
        /\ entry.compressedBlob = entry.file
        /\ entry.compressedSize = entry.file

EntryReplaced(old, new) ==
    /\ new.file # old.file
    /\ new.file.crops > 0
    /\ new.preview = new.file
    /\ new.originalSize = new.file
    /\ new.compressedSize = NoFile
    /\ new.compressedBlob = NoFile

C34_CropReplacesSelectedEntry ==
    [][/\ \A index \in 1..Len(imageFiles') :
              PairedWithOwnFile(imageFiles'[index])
       /\ CropCompletes =>
              /\ Len(imageFiles') = Len(imageFiles)
              /\ cropCallback.index \in 1..Len(imageFiles)
              /\ \A index \in 1..Len(imageFiles) :
                     IF index = cropCallback.index
                     THEN EntryReplaced(imageFiles[index], imageFiles'[index])
                     ELSE imageFiles'[index] = imageFiles[index]
              /\ selectedImageIndex' = 0]_vars

\* C35: resizeImageIfNeeded returns true exactly when the width or the height
\* of the image exceeds 1024; the canvas always gets a width and a height
\* between 1 and 1024, the larger being 1024 when the image was resized, and
\* the natural size of the image when it returns false.
C35_ResizeWithinBounds ==
    resizeCall.called =>
        LET image == resizeCall.image
            cv == resizeCall.canvas
            larger == IF cv.width > cv.height THEN cv.width ELSE cv.height
        IN /\ resizeCall.returned <=>
                  (image.naturalWidth > 1024 \/ image.naturalHeight > 1024)
           /\ 1 <= cv.width /\ cv.width <= 1024
           /\ 1 <= cv.height /\ cv.height <= 1024
           /\ resizeCall.returned => larger = 1024
           /\ ~resizeCall.returned =>
                  /\ cv.width = image.naturalWidth
                  /\ cv.height = image.naturalHeight

====
